---- MODULE Spec2Model ----
(***************************************************************************)
(* State-machine model of the action-resolution kernel and the defender    *)
(* surface of cyberbattle/simulation/actions.py (AgentActions and          *)
(* DefenderAgentActions).                                                  *)
(*                                                                         *)
(* Time.  The code stamps datetime.now() and compares a stamp only with    *)
(* the last_reimaging stamp of the same node (>=, or "is None").  The      *)
(* model reads the clock as a logical clock `now` that ticks exactly when  *)
(* reimage_node stamps last_reimaging; every comparison of the code keeps  *)
(* its value for a strictly increasing wall clock.                         *)
(*                                                                         *)
(* Exceptions.  A raise is an outcome of the call: result.raised names the *)
(* exception and the state keeps every write made before the raise.        *)
(***************************************************************************)
EXTENDS Integers, Sequences, FiniteSets, TLC

(***************************************************************************)
(* Bounds of the model                                                     *)
(***************************************************************************)
MaxReimagings == 2
MaxRules == 3
MaxWeight == 2

(***************************************************************************)
(* Penalty, Reward, EdgeAnnotation, REIMAGING_DURATION                     *)
(***************************************************************************)
SUPSPICIOUSNESS == -50
SCANNING_UNOPEN_PORT == -10
REPEAT == -20
LOCAL_EXPLOIT_FAILED == -20
FAILED_REMOTE_EXPLOIT == -30
MACHINE_NOT_RUNNING == 0
WRONG_PASSWORD == -10
BLOCKED_BY_LOCAL_FIREWALL == -10
BLOCKED_BY_REMOTE_FIREWALL == -10
INVALID_ACTION == -5
NO_VPN == -40
DECEPTION_PENALTY_FOR_AGENT == 0

NEW_SUCCESSFULL_ATTACK_REWARD == 15
NODE_DISCOVERED_REWARD == 3
CREDENTIAL_DISCOVERED_REWARD == 3
PROPERTY_DISCOVERED_REWARD == 2
PROFILE_DISCOVERED_REWARD == 3
IP_CHANGE_TO_IP_LOCAL == 10
SSRF == 15

KNOWS == 0
REMOTE_EXPLOIT == 1
LATERAL_MOVE == 2

REIMAGING_DURATION == 15

\* -sys.float_info.max, the initial max_reward of the branch loop
FLOAT_MIN == -1000000

\* Python's None, for time stamps and counters (all real values are >= 0)
None == -1
\* Python's None, for strings
NoneStr == "None"

\* model.PrivilegeLevel
NoAccess == 0
LocalUser == 1
Admin == 2
System == 3

(***************************************************************************)
(* Boolean expressions (the `boolean` package): trees over symbols.  A     *)
(* symbol is <<k, v>>: k = "prop" for a property name v, otherwise the     *)
(* profile symbol "k.v".                                                   *)
(***************************************************************************)
Sym(k, v) == [op |-> "sym", k |-> k, v |-> v]
Prop(p) == Sym("prop", p)
Not(a) == [op |-> "not", a |-> a]
And(a, b) == [op |-> "and", a |-> a, b |-> b]
Or(a, b) == [op |-> "or", a |-> a, b |-> b]

RECURSIVE get_symbols(_)
get_symbols(e) ==
    CASE e.op = "sym" -> {<<e.k, e.v>>}
      [] e.op = "not" -> get_symbols(e.a)
      [] OTHER -> get_symbols(e.a) \cup get_symbols(e.b)

\* expr.subs(mapping).simplify() == true, for a mapping that binds every
\* symbol: trueSyms is the set of symbols mapped to true
RECURSIVE subs_simplify(_, _)
subs_simplify(e, trueSyms) ==
    CASE e.op = "sym" -> <<e.k, e.v>> \in trueSyms
      [] e.op = "not" -> ~subs_simplify(e.a, trueSyms)
      [] e.op = "and" -> subs_simplify(e.a, trueSyms) /\ subs_simplify(e.b, trueSyms)
      [] OTHER -> subs_simplify(e.a, trueSyms) \/ subs_simplify(e.b, trueSyms)

(***************************************************************************)
(* Profiles (model.Profile)                                                *)
(***************************************************************************)
Profile(u, i, r, ip) == [username |-> u, id |-> i, roles |-> r, ip |-> ip, none |-> FALSE]
\* the profile argument of a local exploit: Python None
NoProfile == [username |-> NoneStr, id |-> NoneStr, roles |-> {}, ip |-> NoneStr, none |-> TRUE]

is_profile_symbol(sym) == sym[1] # "prop"
is_role_symbol(sym) == sym[1] = "roles"

\* ALGEBRA.parse(str(profile)).get_symbols(); str(None) is the lone symbol None
profile_symbols(P) ==
    IF P.none THEN {<<"prop", NoneStr>>}
    ELSE (IF P.username # NoneStr THEN {<<"username", P.username>>} ELSE {})
         \cup (IF P.id # NoneStr THEN {<<"id", P.id>>} ELSE {})
         \cup {<<"roles", r>> : r \in P.roles}
         \cup (IF P.ip # NoneStr THEN {<<"ip", P.ip>>} ELSE {})

\* model.profile_str_to_dict: a profile string "k1.v1&k2.v2" is the sequence
\* of its symbols; the dict is a record with NoneStr / {} for absent keys
RECURSIVE profile_str_to_dict(_)
profile_str_to_dict(str) ==
    IF str = <<>> THEN [username |-> NoneStr, id |-> NoneStr, roles |-> {}, ip |-> NoneStr]
    ELSE LET d == profile_str_to_dict(Tail(str))
             s == Head(str)
         IN  CASE s[1] = "username" -> [d EXCEPT !.username = s[2]]
               [] s[1] = "id" -> [d EXCEPT !.id = s[2]]
               [] s[1] = "ip" -> [d EXCEPT !.ip = s[2]]
               [] OTHER -> [d EXCEPT !.roles = @ \cup {s[2]}]

\* len(profile_dict): the number of keys present
dict_len(d) ==
    (IF d.username # NoneStr THEN 1 ELSE 0) + (IF d.id # NoneStr THEN 1 ELSE 0)
    + (IF d.roles # {} THEN 1 ELSE 0) + (IF d.ip # NoneStr THEN 1 ELSE 0)

\* model.Profile(**profile_dict)
profile_of_dict(d) == Profile(d.username, d.id, d.roles, d.ip)

\* Profile.update(profile_dict, propagate): fills missing scalars, unions
\* roles; returns the merged profile and the number of newly filled fields
profile_update(P, d) ==
    LET newid == P.id = NoneStr /\ d.id # NoneStr
        newip == P.ip = NoneStr /\ d.ip # NoneStr
        newroles == d.roles \ P.roles
    IN  [profile |-> [P EXCEPT !.id = IF newid THEN d.id ELSE @,
                               !.ip = IF newip THEN d.ip ELSE @,
                               !.roles = @ \cup d.roles],
         n |-> (IF newid THEN 1 ELSE 0) + (IF newip THEN 1 ELSE 0) + Cardinality(newroles)]

\* model.escalate(current, escalation)
escalate(cur, esc) == IF esc > cur THEN esc ELSE cur

(***************************************************************************)
(* The environment handed to the constructors (model.Environment): three   *)
(* nodes, the identifier tables, the vulnerabilities.                      *)
(***************************************************************************)
Nodes == {"n0", "n1", "n2"}
\* the order of environment.nodes()
NodeOrder == <<"n0", "n1", "n2">>
PortNames == {"ssh", "http"}
CredentialIDs == {"c1", "c2"}

\* environment.identifiers
properties == {"g", "i", "q"}
global_properties == {"g"}
initial_properties == {"i"}

\* PrivilegeEscalation(level).tag and AgentActions.privilege_tags
tag(level) ==
    CASE level = NoAccess -> "privilege_0" [] level = LocalUser -> "privilege_1"
      [] level = Admin -> "privilege_2" [] OTHER -> "privilege_3"
privilege_tags == {tag(l) : l \in NoAccess..System}

\* model.VulnerabilityOutcome variants, as records of one shape
Outcome(kind) ==
    [kind |-> kind, nodes |-> <<>>, credentials |-> <<>>, profiles |-> <<>>,
     level |-> NoAccess, reward |-> 0, props |-> <<>>, cost |-> None]
LeakedNodesId(ns) == [Outcome("LeakedNodesId") EXCEPT !.nodes = ns]
LeakedCredentials(cs) == [Outcome("LeakedCredentials") EXCEPT !.credentials = cs]
LeakedProfiles(ps) == [Outcome("LeakedProfiles") EXCEPT !.profiles = ps]
PrivilegeEscalation(l) == [Outcome("PrivilegeEscalation") EXCEPT !.level = l]
CustomerData(r) == [Outcome("CustomerData") EXCEPT !.reward = r]
ProbeSucceeded(ps) == [Outcome("ProbeSucceeded") EXCEPT !.props = ps]
ExploitFailed(c) == [Outcome("ExploitFailed") EXCEPT !.cost = c]
LateralMove == Outcome("LateralMove")
DetectionPoint == Outcome("DetectionPoint")
\* ActionResult.outcome = None
NoOutcome == Outcome(NoneStr)
CachedCredential(n, p, c) == [node |-> n, port |-> p, credential |-> c]

\* model.Precondition: an object (id) holding an expression
Precondition(id, e) == [id |-> id, expression |-> e]
\* model.VulnerabilityInfo; precondition, outcome and reward_string are the
\* parallel lists of a list-valued vulnerability, or one-element sequences
\* holding the scalar of a scalar one (is_list = FALSE)
VulnerabilityInfo(type, cost, is_list, pre, out, rs) ==
    [type |-> type, cost |-> cost, is_list |-> is_list,
     precondition |-> pre, outcome |-> out, reward_string |-> rs]

NoAuthSym == Sym("username", "NoAuth")
AliceSym == Sym("username", "alice")

\* environment.vulnerability_library
LibraryIds == {"Shared"}
Library(v) ==
    VulnerabilityInfo("LOCAL", 3, FALSE, <<Precondition("pSharedLibrary", Prop("i"))>>,
        <<CustomerData(9)>>, <<"library">>)

\* node_info.vulnerabilities
NodeVulnIds(n) ==
    CASE n = "n0" -> {"ScanPage", "DumpCreds", "Escalate", "ReadMail", "AskAlice", "Shared",
                      "Harvest"}
      [] n = "n1" -> {"Probe", "Login", "Move", "Leak", "Unpatched"}
      [] OTHER -> {"Probe", "Leak", "Internal"}
NodeVuln(n, v) ==
    CASE v = "ScanPage" ->
           VulnerabilityInfo("LOCAL", 1, FALSE, <<Precondition("pScan", Prop("i"))>>,
               <<LeakedNodesId(<<"n1", "n2">>)>>, <<"scan">>)
      [] v = "DumpCreds" ->
           VulnerabilityInfo("LOCAL", 1, FALSE, <<Precondition("pDump", Prop("i"))>>,
               <<LeakedCredentials(<<CachedCredential("n1", "ssh", "c1"),
                                    CachedCredential("n2", "ssh", "c2")>>)>>, <<"dump">>)
      [] v = "Escalate" ->
           VulnerabilityInfo("LOCAL", 1, FALSE, <<Precondition("pEsc", Prop("i"))>>,
               <<PrivilegeEscalation(Admin)>>, <<"escalate">>)
      [] v = "ReadMail" ->
           VulnerabilityInfo("LOCAL", 2, FALSE, <<Precondition("pMail", Prop("g"))>>,
               <<CustomerData(5)>>, <<"mail">>)
      [] v = "Probe" ->
           VulnerabilityInfo("REMOTE", 1, FALSE, <<Precondition("pProbe", NoAuthSym)>>,
               <<ProbeSucceeded(<<"g", "q">>)>>, <<"probe">>)
      [] v = "Login" ->
           VulnerabilityInfo("REMOTE", 1, TRUE,
               <<Precondition("pLogin1", And(Sym("ip", "local"), AliceSym)),
                 Precondition("pLogin2", And(AliceSym, Sym("roles", "isDoctor"))),
                 Precondition("pLogin3", NoAuthSym)>>,
               <<CustomerData(30),
                 LeakedProfiles(<< <<(<<"username", "bob">>), (<<"ip", "local">>)>> >>),
                 ExploitFailed(None)>>,
               <<"ssrf", "profiles", "deception">>)
      [] v = "Leak" ->
           VulnerabilityInfo("REMOTE", 1, FALSE, <<Precondition("pLeak", NoAuthSym)>>,
               <<LeakedProfiles(<< <<(<<"username", "bob">>), (<<"ip", "local">>)>> >>)>>,
               <<"leak">>)
      [] v = "Internal" ->
           VulnerabilityInfo("REMOTE", 1, FALSE,
               <<Precondition("pInternal", And(Sym("ip", "local"), AliceSym))>>,
               <<CustomerData(30)>>, <<"internal">>)
      [] v = "Unpatched" ->
           VulnerabilityInfo("REMOTE", 1, FALSE,
               <<Precondition("pUnpatched", And(NoAuthSym, Not(Prop("g"))))>>,
               <<CustomerData(3)>>, <<"unpatched">>)
      [] v = "Harvest" ->
           VulnerabilityInfo("LOCAL", 1, TRUE,
               <<Precondition("pHarvest1", Prop("i")), Precondition("pHarvest2", Prop("i"))>>,
               <<LeakedCredentials(<<CachedCredential("n1", "ssh", "c1")>>),
                 LeakedNodesId(<<"n1">>)>>,
               <<"harvest", "list">>)
      [] v = "AskAlice" ->
           VulnerabilityInfo("LOCAL", 1, FALSE, <<Precondition("pAsk", AliceSym)>>,
               <<CustomerData(2)>>, <<"ask">>)
      [] v = "Shared" ->
           VulnerabilityInfo("LOCAL", 1, FALSE, <<Precondition("pSharedNode", Prop("i"))>>,
               <<CustomerData(4)>>, <<"node">>)
      [] OTHER ->
           VulnerabilityInfo("REMOTE", 1, FALSE,
               <<Precondition("pMove", And(NoAuthSym, Prop("q")))>>,
               <<LateralMove>>, <<"move">>)

VulnerabilityIDs == LibraryIds \cup UNION {NodeVulnIds(n) : n \in Nodes}

\* static fields of model.NodeInfo
value(n) == CASE n = "n0" -> 0 [] n = "n1" -> 7 [] OTHER -> 5
reimagable(n) == n = "n1"
InitialProperties(n) == CASE n = "n0" -> {"i"} [] n = "n1" -> {"i", "q"} [] OTHER -> {"q"}
InitialAgentInstalled(n) == n = "n0"
InitialPrivilege(n) == IF n = "n1" THEN Admin ELSE NoAccess

\* model.FirewallRule, model.ListeningService
FirewallRule(port, permission) == [port |-> port, permission |-> permission]
ListeningService(name, running, allowed, w) ==
    [name |-> name, running |-> running, allowedCredentials |-> allowed, sla_weight |-> w]
InitialServices(n) ==
    IF n = "n1" THEN <<ListeningService("ssh", TRUE, {"c1"}, 1)>> ELSE <<>>
InitialFirewall(n) ==
    [incoming |-> <<FirewallRule("ssh", "ALLOW")>>,
     outgoing |-> <<FirewallRule("ssh", "ALLOW"), FirewallRule("http", "ALLOW")>>]

\* the profiles an agent presents with a remote exploit
Profiles ==
    {Profile("NoAuth", NoneStr, {}, NoneStr),
     Profile("alice", NoneStr, {}, NoneStr),
     Profile("alice", NoneStr, {"isDoctor"}, NoneStr),
     Profile("alice", NoneStr, {}, "local")}

(***************************************************************************)
(* State                                                                   *)
(***************************************************************************)
VARIABLES
    \* model.NodeInfo, network edges
    node_properties, agent_installed, privilege_level, status, last_reimaging,
    services, firewall, sla_weight, edges,
    \* AgentActions
    discovered_nodes, discovered_properties, last_attack, last_owned_at,
    gathered_credentials, gathered_profiles, ip_local, throws_on_invalid_actions,
    \* DefenderAgentActions
    node_reimaging_progress, network_availability,
    \* datetime.now()
    now,
    \* the value returned (or the exception raised) by the last call
    result,
    \* history: per node, the exploits that returned a success since the
    \* node's last reimaging: key, profile, and the number n of returned
    \* rewards that included NEW_SUCCESSFULL_ATTACK_REWARD
    history,
    \* inputs and outputs of the pure functions checked on their own
    probe

worldVars == <<node_properties, agent_installed, privilege_level, status, last_reimaging,
               services, firewall, sla_weight, edges>>
ledgerVars == <<discovered_nodes, discovered_properties, last_attack, last_owned_at,
                gathered_credentials, gathered_profiles, ip_local>>
kernelVars == <<node_properties, agent_installed, privilege_level, edges,
                discovered_nodes, discovered_properties, last_attack, last_owned_at,
                gathered_credentials, gathered_profiles, ip_local>>
defenderVars == <<node_reimaging_progress, network_availability>>
vars == <<worldVars, ledgerVars, throws_on_invalid_actions, defenderVars, now, result,
          history, probe>>

\* the part of world and ledger a kernel call can write, as one record
Cur ==
    [node_properties |-> node_properties, agent_installed |-> agent_installed,
     privilege_level |-> privilege_level, edges |-> edges,
     discovered_nodes |-> discovered_nodes, discovered_properties |-> discovered_properties,
     last_attack |-> last_attack, last_owned_at |-> last_owned_at,
     gathered_credentials |-> gathered_credentials, gathered_profiles |-> gathered_profiles,
     ip_local |-> ip_local]

SeqRange(q) == {q[k] : k \in 1..Len(q)}
\* the value of a local variable assigned once: The({e(x) : x \in {v}}) is
\* e(v)
The(S) == CHOOSE x \in S : TRUE

(***************************************************************************)
(* Ledger and world operations of AgentActions.  S is a record shaped like *)
(* Cur; an operation returns the record after its writes together with the *)
(* values it returns.                                                      *)
(***************************************************************************)

\* NodeTrackingInformation(): a fresh ledger entry for node_id
new_tracking_information(S, node_id, props) ==
    [S EXCEPT !.discovered_nodes = Append(@, node_id),
              !.discovered_properties[node_id] = props,
              !.last_attack[node_id] = {},
              !.last_owned_at[node_id] = None]

is_discovered(S, node_id) == node_id \in SeqRange(S.discovered_nodes)

\* faulty variant: the new annotation replaces the existing one
annotate_edge_replacing(S, source_node_id, target_node_id, new_annotation) ==
    [S EXCEPT !.edges[<<source_node_id, target_node_id>>] = new_annotation]

annotate_edge(S, source_node_id, target_node_id, new_annotation) ==
    LET kind == S.edges[<<source_node_id, target_node_id>>]
        ann == IF kind # None /\ kind > new_annotation THEN kind ELSE new_annotation
    IN  [S EXCEPT !.edges[<<source_node_id, target_node_id>>] = ann]

\* faulty variant: every marked property is reported as newly discovered
mark_nodeproperties_counting_all(S, node_id, props, propagate) ==
    LET properties_indices == {p \in props : p \notin privilege_tags}
    IN  IF is_discovered(S, node_id)
        THEN [S |-> IF propagate
                    THEN [S EXCEPT !.discovered_properties[node_id] =
                                       @ \cup properties_indices]
                    ELSE S,
              n |-> Cardinality(properties_indices)]
        ELSE [S |-> IF propagate
                    THEN new_tracking_information(S, node_id, properties_indices)
                    ELSE S,
              n |-> Cardinality(properties_indices)]

mark_nodeproperties_as_discovered(S, node_id, props, propagate) ==
    LET properties_indices == {p \in props : p \notin privilege_tags}
    IN  IF is_discovered(S, node_id)
        THEN IF ~propagate
             THEN [S |-> S,
                   n |-> Cardinality(properties_indices \ S.discovered_properties[node_id])]
             ELSE LET before_count == Cardinality(S.discovered_properties[node_id])
                      S1 == [S EXCEPT !.discovered_properties[node_id] =
                                          @ \cup properties_indices]
                  IN  [S |-> S1,
                       n |-> Cardinality(S1.discovered_properties[node_id]) - before_count]
        ELSE IF ~propagate
             THEN [S |-> S, n |-> Cardinality(properties_indices)]
             ELSE [S |-> new_tracking_information(S, node_id, properties_indices),
                   n |-> Cardinality(properties_indices)]

\* faulty variant: a fresh ledger entry replaces the entry of a node that is
\* discovered already
mark_node_as_discovered_reset(S, node_id, propagate) ==
    LET only_global_properties ==
            S.discovered_properties[S.discovered_nodes[1]] \cap global_properties
        only_initial_properties == S.node_properties[node_id] \cap initial_properties
        S0 == [S EXCEPT !.discovered_nodes = SelectSeq(@, LAMBDA x : x # node_id)]
        S1 == IF propagate THEN new_tracking_information(S0, node_id, {}) ELSE S
    IN  mark_nodeproperties_as_discovered(S1, node_id,
            only_global_properties \cup only_initial_properties, propagate)

mark_node_as_discovered(S, node_id, propagate) ==
    LET newly_discovered == ~is_discovered(S, node_id)
        only_global_properties ==
            S.discovered_properties[S.discovered_nodes[1]] \cap global_properties
        only_initial_properties == S.node_properties[node_id] \cap initial_properties
        S1 == IF propagate /\ newly_discovered
              THEN new_tracking_information(S, node_id, {}) ELSE S
    IN  mark_nodeproperties_as_discovered(S1, node_id,
            only_global_properties \cup only_initial_properties, propagate)

mark_allnodeproperties_as_discovered(S, node_id, propagate) ==
    mark_nodeproperties_as_discovered(S, node_id, S.node_properties[node_id], propagate)

\* faulty variant: an ownership that a reimaging ended is forgotten
is_node_owned_currently(S, target_node_id) ==
    LET last_previously_owned_at ==
            IF is_discovered(S, target_node_id) THEN S.last_owned_at[target_node_id] ELSE None
        is_currently_owned ==
            /\ last_previously_owned_at # None
            /\ \/ last_reimaging[target_node_id] = None
               \/ last_previously_owned_at >= last_reimaging[target_node_id]
    IN  [last_owned_at |-> IF is_currently_owned THEN last_previously_owned_at ELSE None,
         is_currently_owned |-> is_currently_owned]

is_node_owned_history(S, target_node_id) ==
    LET last_previously_owned_at ==
            IF is_discovered(S, target_node_id) THEN S.last_owned_at[target_node_id] ELSE None
    IN  [last_owned_at |-> last_previously_owned_at,
         is_currently_owned |->
             /\ last_previously_owned_at # None
             /\ \/ last_reimaging[target_node_id] = None
                \/ last_previously_owned_at >= last_reimaging[target_node_id]]

\* faulty variant: the ledger records the ownership, the node gets no agent
mark_node_as_owned_without_agent(S, node_id, privilege, propagate) ==
    LET h == is_node_owned_history(S, node_id)
        S1 == IF is_discovered(S, node_id) THEN S
              ELSE new_tracking_information(S, node_id, {})
        S2 == [S1 EXCEPT !.privilege_level[node_id] = escalate(@, privilege)]
        S3 == mark_allnodeproperties_as_discovered(S2, node_id, propagate).S
        S4 == [S3 EXCEPT !.last_owned_at[node_id] = now]
    IN  [S |-> IF propagate /\ ~h.is_currently_owned THEN S4 ELSE S,
         last_owned_at |-> h.last_owned_at,
         is_currently_owned |-> h.is_currently_owned]

\* faulty variant: the privilege is assigned, not escalated
mark_node_as_owned_assigning(S, node_id, privilege, propagate) ==
    LET h == is_node_owned_history(S, node_id)
        S1 == IF is_discovered(S, node_id) THEN S
              ELSE new_tracking_information(S, node_id, {})
        S2 == [S1 EXCEPT !.agent_installed[node_id] = TRUE,
                         !.privilege_level[node_id] = privilege]
        S3 == mark_allnodeproperties_as_discovered(S2, node_id, propagate).S
        S4 == [S3 EXCEPT !.last_owned_at[node_id] = now]
    IN  [S |-> IF propagate /\ ~h.is_currently_owned THEN S4 ELSE S,
         last_owned_at |-> h.last_owned_at,
         is_currently_owned |-> h.is_currently_owned]

mark_node_as_owned(S, node_id, privilege, propagate) ==
    LET h == is_node_owned_history(S, node_id)
        S1 == IF is_discovered(S, node_id) THEN S
              ELSE new_tracking_information(S, node_id, {})
        S2 == [S1 EXCEPT !.agent_installed[node_id] = TRUE,
                         !.privilege_level[node_id] = escalate(@, privilege)]
        S3 == mark_allnodeproperties_as_discovered(S2, node_id, propagate).S
        S4 == [S3 EXCEPT !.last_owned_at[node_id] = now]
    IN  [S |-> IF propagate /\ ~h.is_currently_owned THEN S4 ELSE S,
         last_owned_at |-> h.last_owned_at,
         is_currently_owned |-> h.is_currently_owned]

\* the counters returned by mark_discovered_entities
Counters(S) ==
    [S |-> S, newly_discovered_nodes |-> 0, newly_discovered_nodes_value |-> 0,
     newly_discovered_properties |-> 0, newly_discovered_credentials |-> 0,
     newly_discovered_profiles |-> 0, ip_local_change |-> FALSE]

\* one turn of `for credential in outcome.credentials` (the node is marked
\* with the default propagate = True)
leaked_credential(A, reference_node, credential, propagate) ==
    The({(LET A1 == IF d.n # 0
                    THEN [A EXCEPT !.S = d.S,
                                   !.newly_discovered_nodes = @ + 1,
                                   !.newly_discovered_nodes_value =
                                       @ + value(credential.node),
                                   !.newly_discovered_properties = @ + d.n]
                    ELSE [A EXCEPT !.S = d.S]
              isnew == credential.credential \notin A1.S.gathered_credentials
              A2 == IF isnew
                    THEN [A1 EXCEPT !.newly_discovered_credentials = @ + 1,
                                    !.S.gathered_credentials =
                                        IF propagate THEN @ \cup {credential.credential}
                                        ELSE @]
                    ELSE A1
          IN  IF propagate
              THEN [A2 EXCEPT !.S = annotate_edge(@, reference_node, credential.node, KNOWS)]
              ELSE A2)
         : d \in {mark_node_as_discovered(A.S, credential.node, TRUE)}})

\* one turn of `for node_id in outcome.discovered_nodes`
leaked_node(A, reference_node, node_id, propagate) ==
    The({(LET A1 == IF d.n # 0
                    THEN [A EXCEPT !.S = d.S,
                                   !.newly_discovered_nodes = @ + 1,
                                   !.newly_discovered_nodes_value = @ + value(node_id),
                                   !.newly_discovered_properties = @ + d.n]
                    ELSE [A EXCEPT !.S = d.S]
          IN  IF propagate
              THEN [A1 EXCEPT !.S = annotate_edge(@, reference_node, node_id, KNOWS)]
              ELSE A1)
         : d \in {mark_node_as_discovered(A.S, node_id, propagate)}})

\* `for profile in self._gathered_profiles: if username matches: update`
RECURSIVE update_profiles(_, _, _, _)
update_profiles(profiles, k, d, propagate) ==
    IF k > Len(profiles) THEN [profiles |-> profiles, n |-> 0]
    ELSE IF profiles[k].username = d.username
         THEN LET u == profile_update(profiles[k], d)
                  rest == update_profiles(
                              IF propagate THEN [profiles EXCEPT ![k] = u.profile]
                              ELSE profiles, k + 1, d, propagate)
              IN  [profiles |-> rest.profiles, n |-> u.n + rest.n]
         ELSE update_profiles(profiles, k + 1, d, propagate)

\* one turn of `for profile_str in outcome.discovered_profiles`
leaked_profile(A, profile_str, propagate) ==
    LET profile_dict == profile_str_to_dict(profile_str)
        known == {A.S.gathered_profiles[k].username : k \in 1..Len(A.S.gathered_profiles)}
        A1 == IF profile_dict.username = NoneStr THEN A
              ELSE IF profile_dict.username \notin known
                   THEN [A EXCEPT !.newly_discovered_profiles = @ + dict_len(profile_dict),
                                  !.S.gathered_profiles =
                                      IF propagate THEN Append(@, profile_of_dict(profile_dict))
                                      ELSE @]
                   ELSE LET u == update_profiles(A.S.gathered_profiles, 1, profile_dict,
                                                 propagate)
                        IN  [A EXCEPT !.newly_discovered_profiles = @ + u.n,
                                      !.S.gathered_profiles = u.profiles]
    IN  IF ~(A1.S.ip_local \/ A1.ip_local_change)
        THEN [A1 EXCEPT !.ip_local_change = <<"ip", "local">> \in SeqRange(profile_str)]
        ELSE A1

RECURSIVE leak_loop(_, _, _, _, _)
leak_loop(A, reference_node, outcome, k, propagate) ==
    CASE outcome.kind = "LeakedCredentials" ->
           IF k > Len(outcome.credentials) THEN A
           ELSE leak_loop(leaked_credential(A, reference_node, outcome.credentials[k],
                                            propagate),
                          reference_node, outcome, k + 1, propagate)
      [] outcome.kind = "LeakedNodesId" ->
           IF k > Len(outcome.nodes) THEN A
           ELSE leak_loop(leaked_node(A, reference_node, outcome.nodes[k], propagate),
                          reference_node, outcome, k + 1, propagate)
      [] outcome.kind = "LeakedProfiles" ->
           IF k > Len(outcome.profiles) THEN A
           ELSE leak_loop(leaked_profile(A, outcome.profiles[k], propagate),
                          reference_node, outcome, k + 1, propagate)
      [] OTHER -> A

mark_discovered_entities(S, reference_node, outcome, propagate) ==
    leak_loop(Counters(S), reference_node, outcome, 1, propagate)

(***************************************************************************)
(* AgentActions._check_profile, _check_properties_after_profile_check      *)
(***************************************************************************)
check_profile(profile, precondition) ==
    LET expr == precondition.expression
        psyms == profile_symbols(profile)
        mapping == {x \in get_symbols(expr) : ~is_profile_symbol(x) \/ x \in psyms}
        wo_roles_mapping ==
            {x \in get_symbols(expr) :
                ~is_profile_symbol(x) \/ is_role_symbol(x) \/ x \in psyms}
    IN  [is_true |-> subs_simplify(expr, mapping),
         wo_roles_is_true |-> subs_simplify(expr, wo_roles_mapping)]

\* faulty variant: the check reads the properties the node has
check_properties_of_node(S, target, profile, precondition) ==
    LET node_props == S.node_properties[target]
        expr == precondition.expression
        psyms == profile_symbols(profile)
        mapping == {x \in get_symbols(expr) :
                       \/ (x[1] = "prop" /\ x[2] \in node_props)
                       \/ (is_profile_symbol(x) /\ x \in psyms)}
    IN  subs_simplify(expr, mapping)

check_properties_after_profile_check(S, target, profile, precondition) ==
    LET node_props == S.discovered_properties[target]
        expr == precondition.expression
        psyms == profile_symbols(profile)
        mapping == {x \in get_symbols(expr) :
                       \/ (x[1] = "prop" /\ x[2] \in node_props)
                       \/ (is_profile_symbol(x) /\ x \in psyms)}
    IN  subs_simplify(expr, mapping)

(***************************************************************************)
(* AgentActions.__process_outcome                                          *)
(***************************************************************************)
\* ActionResult, with the exception raised instead (raised), the call it
\* answers (op, node_id) and the parts of the returned reward (parts); the
\* profile field, an echo of the argument, is left out
NoParts == [bonus |-> FALSE, ip_change |-> FALSE, ssrf |-> FALSE, node_value |-> FALSE]
ActionResult(op, node_id, reward, outcome, profile, precondition, reward_string) ==
    [op |-> op, node_id |-> node_id, reward |-> reward, outcome |-> outcome,
     precondition |-> precondition, reward_string |-> reward_string,
     error_type |-> NoneStr, succeeded |-> FALSE, raised |-> NoneStr, parts |-> NoParts]
Raised(op, node_id, exception) ==
    [ActionResult(op, node_id, 0, NoOutcome, NoProfile, NoneStr, "")
        EXCEPT !.raised = exception]

Key(vulnerability_id, local_or_remote, precondition, success) ==
    <<vulnerability_id, local_or_remote, precondition.id, success>>
\* faulty variant: the lookup uses the failure flag of the key
already_executed_failed_key(S, node_id, key) ==
    is_discovered(S, node_id)
    /\ \E e \in S.last_attack[node_id] : e.key = <<key[1], key[2], key[3], FALSE>>

already_executed(S, node_id, key) ==
    is_discovered(S, node_id) /\ \E e \in S.last_attack[node_id] : e.key = key
last_time(S, node_id, key) ==
    (CHOOSE e \in S.last_attack[node_id] : e.key = key).time
\* `node_info.last_reimaging is None or last_time >= node_info.last_reimaging`
since_reimaging(node_id, time) ==
    last_reimaging[node_id] = None \/ time >= last_reimaging[node_id]
\* faulty variant: the success is not recorded
record_attack_dropped(S, node_id, key) == S

record_attack(S, node_id, key) ==
    [S EXCEPT !.last_attack[node_id] =
        {e \in @ : e.key # key} \cup {[key |-> key, time |-> now]}]

SeqMax(q) == CHOOSE m \in SeqRange(q) : \A x \in SeqRange(q) : x <= m
Sum4(A) ==
    A.newly_discovered_nodes * NODE_DISCOVERED_REWARD
    + A.newly_discovered_credentials * CREDENTIAL_DISCOVERED_REWARD
    + A.newly_discovered_profiles * PROFILE_DISCOVERED_REWARD
    + A.newly_discovered_properties * PROPERTY_DISCOVERED_REWARD

\* the lists of the branch loop
Lists(S) ==
    [S |-> S, max_reward |-> FLOAT_MIN, max_reward_list |-> <<>>,
     max_outcome_list |-> <<>>, max_precondition_index_list |-> <<>>,
     error_type_list |-> <<>>, parts_list |-> <<>>, raised |-> NoneStr]

\* `if max_reward <= reward: ...append(...)`
push(L, reward, error_type, index, outcome, parts) ==
    IF L.max_reward <= reward
    THEN [L EXCEPT !.max_reward_list = Append(@, reward),
                   !.max_outcome_list = Append(@, outcome),
                   !.max_precondition_index_list = Append(@, index),
                   !.error_type_list = Append(@, error_type),
                   !.parts_list = Append(@, parts)]
    ELSE L

\* `for discovered_node_id in self._discovered_nodes: mark(only_global_properties)`
mark_on_all_discovered(S, props, propagate) ==
    [S EXCEPT !.discovered_properties =
        [n \in Nodes |-> IF is_discovered(S, n)
                         THEN mark_nodeproperties_as_discovered(S, n, props, propagate)
                                 .S.discovered_properties[n]
                         ELSE S.discovered_properties[n]]]

\* the dry run of a branch that passed the checks and is no deception
\* outcome: lines 534-615
dry_run(L, C, V, i) ==
    LET precondition == V.precondition[i]
        outcome == V.outcome[i]
        node_id == C.node_id
        ip_local_flag == ~C.profile.none /\ C.profile.ip = "local"
        has_tag == tag(outcome.level) \in L.S.node_properties[node_id]
        owns == outcome.kind = "LateralMove"
                \/ (outcome.kind = "PrivilegeEscalation" /\ ~has_tag)
        is_probe == outcome.kind = "ProbeSucceeded"
        only_global_properties == SeqRange(outcome.props) \cap global_properties
        key == Key(C.vulnerability_id, C.local_or_remote, precondition, TRUE)
        ssrf == <<"ip", "local">> \in get_symbols(precondition.expression) /\ ip_local_flag
        \* the outcome's reward and the writes up to node_info.properties.append
        Owned(own) ==
            LET never_owned == own.last_owned_at = None
                S0 == IF owns THEN own.S ELSE L.S
            IN  [r1 |-> -V.cost
                        + (CASE outcome.kind = "PrivilegeEscalation" ->
                                  IF has_tag THEN REPEAT
                                  ELSE IF never_owned THEN value(node_id) ELSE 0
                             [] outcome.kind = "LateralMove" ->
                                  IF never_owned THEN value(node_id) ELSE 0
                             [] outcome.kind = "CustomerData" -> outcome.reward
                             [] outcome.kind = "DetectionPoint" -> DECEPTION_PENALTY_FOR_AGENT
                             [] OTHER -> 0),
                 node_value |-> outcome.kind \in {"PrivilegeEscalation", "LateralMove"}
                                /\ never_owned
                                /\ ~(outcome.kind = "PrivilegeEscalation" /\ has_tag),
                 S1 |-> IF outcome.kind = "PrivilegeEscalation" /\ ~has_tag
                        THEN [S0 EXCEPT !.node_properties[node_id] =
                                            @ \cup {tag(outcome.level)}]
                        ELSE S0]
        \* the rest of the turn, from the repeat lookup on
        Rest(o, A, marked, S2) ==
            LET probe_ok == \A p \in SeqRange(outcome.props) :
                                p \in A.S.node_properties[node_id] \/ p \in global_properties
                A1 == [A EXCEPT !.newly_discovered_properties =
                                    @ + (IF is_probe THEN marked.n ELSE 0)]
                L1 == [L EXCEPT !.S = IF is_probe /\ ~probe_ok THEN A.S ELSE S2]
                executed == already_executed(S2, node_id, key)
                bonus == ~executed /\ outcome.kind # "ExploitFailed"
                ip_change == ~S2.ip_local /\ A.ip_local_change
                reward == o.r1 + (IF bonus THEN NEW_SUCCESSFULL_ATTACK_REWARD ELSE 0)
                               + (IF ip_change THEN IP_CHANGE_TO_IP_LOCAL ELSE 0)
                               + Sum4(A1) + (IF ssrf THEN SSRF ELSE 0)
            IN  IF is_probe /\ ~probe_ok
                THEN [L1 EXCEPT !.raised = "AssertionError"]
                ELSE IF executed /\ since_reimaging(node_id, last_time(S2, node_id, key))
                THEN push(L1, REPEAT - V.cost, "REPEATED", i, outcome, NoParts)
                ELSE The({[L2 EXCEPT !.max_reward = SeqMax(L2.max_reward_list)] :
                          L2 \in {push(L1, reward, "NOERROR", i, outcome,
                                       [bonus |-> bonus, ip_change |-> ip_change,
                                        ssrf |-> ssrf, node_value |-> o.node_value])}})
    IN  The({The({The({The({Rest(o, A, marked, S2) :
            S2 \in {IF is_probe
                    THEN mark_on_all_discovered(marked.S, only_global_properties, FALSE)
                    ELSE A.S}}) :
            marked \in {mark_nodeproperties_as_discovered(A.S, node_id,
                                                          SeqRange(outcome.props), FALSE)}}) :
            A \in {mark_discovered_entities(o.S1, node_id, outcome, FALSE)}}) :
            o \in {Owned(mark_node_as_owned(L.S, node_id,
                             IF outcome.kind = "PrivilegeEscalation" THEN outcome.level
                             ELSE LocalUser,
                             FALSE))}})

\* one turn of the branch loop: lines 484-615
eval_branch(L, C, V, i) ==
    LET precondition == V.precondition[i]
        outcome == V.outcome[i]
        reward == -V.cost
        ip_local_flag == ~C.profile.none /\ C.profile.ip = "local"
        chk == check_profile(C.profile, precondition)
    IN  IF <<"ip", "local">> \in get_symbols(precondition.expression) /\ ~ip_local_flag
        THEN push(L, reward + NO_VPN, "IP_LOCAL_NEEDED", i, ExploitFailed(None), NoParts)
        ELSE IF ~chk.is_true
        THEN IF L.max_reward <= reward + FAILED_REMOTE_EXPLOIT
                /\ ~chk.wo_roles_is_true /\ C.profile.none
             THEN \* profile.username of None
                  [L EXCEPT !.raised = "AttributeError"]
             ELSE push(L, reward + FAILED_REMOTE_EXPLOIT,
                       IF chk.wo_roles_is_true THEN "ROLES_WRONG"
                       ELSE IF C.profile.username = "NoAuth" THEN "NO_AUTH"
                       ELSE "WRONG_AUTH",
                       i, ExploitFailed(None), NoParts)
        ELSE IF ~check_properties_after_profile_check(L.S, C.node_id, C.profile,
                                                      precondition)
        THEN push(L, reward + C.failed_penalty, "PROPERTY_WRONG", i, ExploitFailed(None),
                  NoParts)
        ELSE IF outcome.kind = "ExploitFailed"
        THEN push(L, reward + (IF outcome.cost # None THEN -outcome.cost
                               ELSE FAILED_REMOTE_EXPLOIT),
                  "OTHER", i, outcome, NoParts)
        ELSE dry_run(L, C, V, i)

RECURSIVE branch_loop(_, _, _, _)
branch_loop(L, C, V, i) ==
    IF i > Len(V.precondition) \/ L.raised # NoneStr THEN L
    ELSE branch_loop(eval_branch(L, C, V, i), C, V, i + 1)

\* the failure return: lines 627-641
failure_path(L, C, V, k) ==
    LET index == L.max_precondition_index_list[k]
        max_precondition == V.precondition[index]
        error_type == L.error_type_list[k]
        key == Key(C.vulnerability_id, C.local_or_remote, max_precondition, FALSE)
        repeated == /\ error_type # "REPEATED"
                    /\ already_executed(L.S, C.node_id, key)
                    /\ since_reimaging(C.node_id, last_time(L.S, C.node_id, key))
        max_reward == L.max_reward_list[k] - (IF repeated THEN REPEAT ELSE 0)
    IN  [S |-> L.S,
         result |-> [ActionResult(C.op, C.node_id, max_reward, L.max_outcome_list[k],
                                  C.profile, max_precondition.id, V.reward_string[index])
                        EXCEPT !.error_type = IF repeated THEN "REPEATED" ELSE error_type]]

\* the success commit: lines 643-716.  `outcome` is the loop variable after
\* the loop, the outcome of the last branch.
commit(L, C, V, k) ==
    LET node_id == C.node_id
        index == L.max_precondition_index_list[k]
        max_precondition == V.precondition[index]
        max_outcome == L.max_outcome_list[k]
        max_reward == L.max_reward_list[k]
        outcome == V.outcome[Len(V.outcome)]
        ip_local_flag == ~C.profile.none /\ C.profile.ip = "local"
        has_tag == tag(max_outcome.level) \in L.S.node_properties[node_id]
        escalation == max_outcome.kind = "PrivilegeEscalation" /\ ~has_tag
        is_probe == max_outcome.kind = "ProbeSucceeded"
        only_global_properties == SeqRange(max_outcome.props) \cap global_properties
        key == Key(C.vulnerability_id, C.local_or_remote, max_precondition, TRUE)
        ssrf == <<"ip", "local">> \in get_symbols(max_precondition.expression)
                /\ ip_local_flag
        \* the outcome's reward and the writes of the ownership
        Owned(own) ==
            [r1 |-> -V.cost
                    + (IF max_outcome.kind = "PrivilegeEscalation"
                       THEN (IF has_tag THEN REPEAT
                             ELSE IF own.last_owned_at = None THEN value(node_id) ELSE 0)
                       ELSE IF max_outcome.kind = "LateralMove"
                       THEN (IF own.last_owned_at = None THEN value(node_id) ELSE 0)
                       ELSE IF outcome.kind = "CustomerData" THEN outcome.reward
                       ELSE IF max_outcome.kind = "DetectionPoint"
                       THEN DECEPTION_PENALTY_FOR_AGENT
                       ELSE 0),
             S1 |-> IF escalation
                    THEN [own.S EXCEPT !.node_properties[node_id] =
                                           @ \cup {tag(max_outcome.level)}]
                    ELSE IF max_outcome.kind = "LateralMove" THEN own.S
                    ELSE L.S]
        \* the rest of the commit, from the repeat lookup on
        Rest(o, A, S2, n) ==
            LET probe_ok == \A p \in SeqRange(max_outcome.props) :
                                p \in A.S.node_properties[node_id] \/ p \in global_properties
                A1 == [A EXCEPT !.newly_discovered_properties = @ + n]
                bonus == ~already_executed(S2, node_id, key)
                         /\ outcome.kind # "ExploitFailed"
                S3 == record_attack(S2, node_id, key)
                S4 == IF A.ip_local_change THEN [S3 EXCEPT !.ip_local = TRUE] ELSE S3
                reward == o.r1 + (IF bonus THEN NEW_SUCCESSFULL_ATTACK_REWARD ELSE 0)
                               + (IF A.ip_local_change THEN IP_CHANGE_TO_IP_LOCAL ELSE 0)
                               + Sum4(A1) + (IF ssrf THEN SSRF ELSE 0)
            IN  IF is_probe /\ ~probe_ok
                THEN [S |-> A.S, result |-> Raised(C.op, node_id, "AssertionError")]
                ELSE IF is_probe /\ outcome.kind # "ProbeSucceeded"
                THEN [S |-> A.S, result |-> Raised(C.op, node_id, "AttributeError")]
                ELSE IF reward # max_reward
                THEN [S |-> S4, result |-> [Raised(C.op, node_id, "AssertionError")
                                               EXCEPT !.error_type = "NOERROR"]]
                ELSE [S |-> S4,
                      result |-> [ActionResult(C.op, node_id, max_reward, max_outcome,
                                               C.profile, max_precondition.id,
                                               V.reward_string[index])
                                     EXCEPT !.error_type = "NOERROR", !.succeeded = TRUE,
                                            !.parts = L.parts_list[k]]]
        \* the properties of a successful probe, on the node and on every
        \* discovered node
        Probed(o, A) ==
            IF is_probe
            THEN The({Rest(o, A,
                           mark_on_all_discovered(marked.S, only_global_properties, TRUE),
                           marked.n) :
                      marked \in {mark_nodeproperties_as_discovered(
                                      A.S, node_id, SeqRange(outcome.props), TRUE)}})
            ELSE Rest(o, A, A.S, 0)
    IN  The({The({Probed(o, A) :
            A \in {mark_discovered_entities(o.S1, node_id, max_outcome, TRUE)}}) :
            o \in {Owned(mark_node_as_owned(L.S, node_id,
                             IF escalation THEN max_outcome.level ELSE LocalUser, TRUE))}})

\* faulty variant: the first candidate is returned, maximal or not
select_first(L, C, V) ==
    {IF L.error_type_list[k] # "NOERROR" THEN failure_path(L, C, V, k)
     ELSE commit(L, C, V, k) : k \in {1}}

\* branch selection (np.random.choice among the maxima), then failure
\* return or commit
select(L, C, V) ==
    LET ind_max_reward_candidates ==
            {k \in 1..Len(L.max_reward_list) :
                L.max_reward_list[k] = SeqMax(L.max_reward_list)}
    IN  {IF L.error_type_list[k] # "NOERROR" THEN failure_path(L, C, V, k)
         ELSE commit(L, C, V, k) : k \in ind_max_reward_candidates}

\* C: the arguments of __process_outcome; the set of its possible returns
process_outcome(C) ==
    LET vulnerability_id == C.vulnerability_id
        is_global_vulnerability == vulnerability_id \in LibraryIds
        is_inplace_vulnerability == vulnerability_id \in NodeVulnIds(C.node_id)
        V == IF is_global_vulnerability THEN Library(vulnerability_id)
             ELSE NodeVuln(C.node_id, vulnerability_id)
    IN  IF status[C.node_id] # "Running"
        THEN {[S |-> Cur,
               result |-> ActionResult(C.op, C.node_id, MACHINE_NOT_RUNNING, NoOutcome,
                                       C.profile, NoneStr, "")]}
        ELSE IF ~is_global_vulnerability /\ ~is_inplace_vulnerability
        THEN IF C.throw_if_vulnerability_not_present
             THEN {[S |-> Cur, result |-> Raised(C.op, C.node_id, "ValueError")]}
             ELSE {[S |-> Cur,
                    result |-> ActionResult(C.op, C.node_id, SUPSPICIOUSNESS, NoOutcome,
                                            C.profile, NoneStr, "SUSPICIOUSNESS action")]}
        ELSE IF V.type # C.expected_type
        THEN {[S |-> Cur, result |-> Raised(C.op, C.node_id, "ValueError")]}
        ELSE UNION {IF L.raised # NoneStr
                    THEN {[S |-> L.S, result |-> Raised(C.op, C.node_id, L.raised)]}
                    ELSE select(L, C, V) :
                    L \in {branch_loop(Lists(Cur), C, V, 1)}}

\* faulty variant: the edge is annotated whatever the outcome
annotate_always(o, node_id, target_node_id) ==
    [o EXCEPT !.S = annotate_edge(@, node_id, target_node_id, REMOTE_EXPLOIT)]

\* `if succeeded: self.__annotate_edge(node_id, target_node_id, REMOTE_EXPLOIT)`
annotate_if_succeeded(o, node_id, target_node_id) ==
    IF o.result.succeeded
    THEN [o EXCEPT !.S = annotate_edge(@, node_id, target_node_id, REMOTE_EXPLOIT)]
    ELSE o

\* faulty variant: the target need not be discovered
exploit_remote_vulnerability_undiscovered(node_id, target_node_id, profile, vulnerability_id) ==
    LET op == "exploit_remote_vulnerability"
        invalid == IF throws_on_invalid_actions
                   THEN {[S |-> Cur, result |-> Raised(op, target_node_id, "ValueError")]}
                   ELSE {[S |-> Cur,
                          result |-> ActionResult(op, target_node_id, INVALID_ACTION,
                                                  NoOutcome, profile, NoneStr, "")]}
        outs == process_outcome(
                    [op |-> op, expected_type |-> "REMOTE",
                     vulnerability_id |-> vulnerability_id, node_id |-> target_node_id,
                     profile |-> profile, local_or_remote |-> FALSE,
                     failed_penalty |-> FAILED_REMOTE_EXPLOIT,
                     throw_if_vulnerability_not_present |-> FALSE])
    IN  IF node_id \notin Nodes \/ target_node_id \notin Nodes
        THEN {[S |-> Cur, result |-> Raised(op, target_node_id, "ValueError")]}
        ELSE IF ~agent_installed[node_id] THEN invalid
        ELSE {annotate_if_succeeded(o, node_id, target_node_id) : o \in outs}

\* the returns of exploit_remote_vulnerability
exploit_remote_vulnerability(node_id, target_node_id, profile, vulnerability_id) ==
    LET op == "exploit_remote_vulnerability"
        invalid == IF throws_on_invalid_actions
                   THEN {[S |-> Cur, result |-> Raised(op, target_node_id, "ValueError")]}
                   ELSE {[S |-> Cur,
                          result |-> ActionResult(op, target_node_id, INVALID_ACTION,
                                                  NoOutcome, profile, NoneStr, "")]}
        outs == process_outcome(
                    [op |-> op, expected_type |-> "REMOTE",
                     vulnerability_id |-> vulnerability_id, node_id |-> target_node_id,
                     profile |-> profile, local_or_remote |-> FALSE,
                     failed_penalty |-> FAILED_REMOTE_EXPLOIT,
                     throw_if_vulnerability_not_present |-> FALSE])
    IN  IF node_id \notin Nodes \/ target_node_id \notin Nodes
        THEN {[S |-> Cur, result |-> Raised(op, target_node_id, "ValueError")]}
        ELSE IF ~agent_installed[node_id] THEN invalid
        ELSE IF ~is_discovered(Cur, target_node_id) THEN invalid
        ELSE {annotate_if_succeeded(o, node_id, target_node_id) : o \in outs}

\* faulty variant: a missing vulnerability raises in strict mode
exploit_local_vulnerability_throwing(node_id, vulnerability_id) ==
    LET op == "exploit_local_vulnerability"
    IN  IF node_id \notin Nodes
        THEN {[S |-> Cur, result |-> Raised(op, node_id, "ValueError")]}
        ELSE IF ~agent_installed[node_id]
        THEN IF throws_on_invalid_actions
             THEN {[S |-> Cur, result |-> Raised(op, node_id, "ValueError")]}
             ELSE {[S |-> Cur,
                    result |-> ActionResult(op, node_id, INVALID_ACTION, NoOutcome,
                                            NoProfile, NoneStr, "")]}
        ELSE process_outcome(
                 [op |-> op, expected_type |-> "LOCAL",
                  vulnerability_id |-> vulnerability_id, node_id |-> node_id,
                  profile |-> NoProfile, local_or_remote |-> TRUE,
                  failed_penalty |-> LOCAL_EXPLOIT_FAILED,
                  throw_if_vulnerability_not_present |-> throws_on_invalid_actions])

\* the returns of exploit_local_vulnerability
exploit_local_vulnerability(node_id, vulnerability_id) ==
    LET op == "exploit_local_vulnerability"
    IN  IF node_id \notin Nodes
        THEN {[S |-> Cur, result |-> Raised(op, node_id, "ValueError")]}
        ELSE IF ~agent_installed[node_id]
        THEN IF throws_on_invalid_actions
             THEN {[S |-> Cur, result |-> Raised(op, node_id, "ValueError")]}
             ELSE {[S |-> Cur,
                    result |-> ActionResult(op, node_id, INVALID_ACTION, NoOutcome,
                                            NoProfile, NoneStr, "")]}
        ELSE process_outcome(
                 [op |-> op, expected_type |-> "LOCAL",
                  vulnerability_id |-> vulnerability_id, node_id |-> node_id,
                  profile |-> NoProfile, local_or_remote |-> TRUE,
                  failed_penalty |-> LOCAL_EXPLOIT_FAILED,
                  throw_if_vulnerability_not_present |-> FALSE])

(***************************************************************************)
(* connect_to_remote_machine                                               *)
(***************************************************************************)
\* faulty variant: the last matching rule decides
RECURSIVE is_passing_last_rule(_, _)
is_passing_last_rule(rules, port_name) ==
    IF rules = <<>> THEN FALSE
    ELSE IF rules[Len(rules)].port = port_name THEN rules[Len(rules)].permission = "ALLOW"
    ELSE is_passing_last_rule(SubSeq(rules, 1, Len(rules) - 1), port_name)

RECURSIVE is_passing_firewall_rules(_, _)
is_passing_firewall_rules(rules, port_name) ==
    IF rules = <<>> THEN FALSE
    ELSE IF Head(rules).port = port_name THEN Head(rules).permission = "ALLOW"
    ELSE is_passing_firewall_rules(Tail(rules), port_name)

check_service_running_and_authorized(target_node_id, port_name, credential) ==
    \E k \in 1..Len(services[target_node_id]) :
        LET service == services[target_node_id][k]
        IN  service.running /\ service.name = port_name
            /\ credential \in service.allowedCredentials

\* faulty variant: the firewalls are checked before the credential
connect_validation_firewall_first(source_node_id, target_node_id, port_name, credential) ==
    LET op == "connect_to_remote_machine"
        Return(reward) ==
            [passed |-> FALSE,
             result |-> ActionResult(op, target_node_id, reward, NoOutcome, NoProfile,
                                     NoneStr, "")]
        invalid == IF throws_on_invalid_actions
                   THEN [passed |-> FALSE, result |-> Raised(op, target_node_id, "ValueError")]
                   ELSE Return(INVALID_ACTION)
        target_node_is_listening ==
            port_name \in {services[target_node_id][k].name :
                              k \in 1..Len(services[target_node_id])}
    IN  IF ~agent_installed[source_node_id] THEN invalid
        ELSE IF ~is_discovered(Cur, target_node_id) THEN invalid
        ELSE IF ~is_passing_firewall_rules(firewall[source_node_id].outgoing, port_name)
        THEN Return(BLOCKED_BY_LOCAL_FIREWALL)
        ELSE IF ~is_passing_firewall_rules(firewall[target_node_id].incoming, port_name)
        THEN Return(BLOCKED_BY_REMOTE_FIREWALL)
        ELSE IF credential \notin gathered_credentials THEN invalid
        ELSE IF ~target_node_is_listening THEN Return(SCANNING_UNOPEN_PORT)
        ELSE IF status[target_node_id] # "Running" THEN Return(MACHINE_NOT_RUNNING)
        ELSE IF ~check_service_running_and_authorized(target_node_id, port_name, credential)
        THEN Return(WRONG_PASSWORD)
        ELSE [passed |-> TRUE, result |-> Raised(op, target_node_id, NoneStr)]

\* the checks of connect_to_remote_machine, lines 834-887: the result of
\* the first failing one, or passed
connect_validation(source_node_id, target_node_id, port_name, credential) ==
    LET op == "connect_to_remote_machine"
        Return(reward) ==
            [passed |-> FALSE,
             result |-> ActionResult(op, target_node_id, reward, NoOutcome, NoProfile,
                                     NoneStr, "")]
        invalid == IF throws_on_invalid_actions
                   THEN [passed |-> FALSE, result |-> Raised(op, target_node_id, "ValueError")]
                   ELSE Return(INVALID_ACTION)
        target_node_is_listening ==
            port_name \in {services[target_node_id][k].name :
                              k \in 1..Len(services[target_node_id])}
    IN  IF ~agent_installed[source_node_id] THEN invalid
        ELSE IF ~is_discovered(Cur, target_node_id) THEN invalid
        ELSE IF credential \notin gathered_credentials THEN invalid
        ELSE IF ~is_passing_firewall_rules(firewall[source_node_id].outgoing, port_name)
        THEN Return(BLOCKED_BY_LOCAL_FIREWALL)
        ELSE IF ~is_passing_firewall_rules(firewall[target_node_id].incoming, port_name)
        THEN Return(BLOCKED_BY_REMOTE_FIREWALL)
        ELSE IF ~target_node_is_listening THEN Return(SCANNING_UNOPEN_PORT)
        ELSE IF status[target_node_id] # "Running" THEN Return(MACHINE_NOT_RUNNING)
        ELSE IF ~check_service_running_and_authorized(target_node_id, port_name, credential)
        THEN Return(WRONG_PASSWORD)
        ELSE [passed |-> TRUE, result |-> Raised(op, target_node_id, NoneStr)]

\* faulty variant: the node value is granted at every new ownership
connect_success_value_always(source_node_id, target_node_id) ==
    LET op == "connect_to_remote_machine"
        Return(reward) ==
            ActionResult(op, target_node_id, reward, LateralMove, NoProfile, NoneStr, "")
        own == mark_node_as_owned(Cur, target_node_id, LocalUser, TRUE)
    IN  IF own.is_currently_owned
        THEN [S |-> own.S, result |-> Return(REPEAT)]
        ELSE [S |-> annotate_edge(own.S, source_node_id, target_node_id, LATERAL_MOVE),
              result |-> [Return(value(target_node_id))
                             EXCEPT !.succeeded = TRUE,
                                    !.parts.node_value = own.last_owned_at = None]]

\* the connection itself, lines 889-905
connect_success(source_node_id, target_node_id) ==
    LET op == "connect_to_remote_machine"
        Return(reward) ==
            ActionResult(op, target_node_id, reward, LateralMove, NoProfile, NoneStr, "")
        own == mark_node_as_owned(Cur, target_node_id, LocalUser, TRUE)
    IN  IF own.is_currently_owned
        THEN [S |-> own.S, result |-> Return(REPEAT)]
        ELSE [S |-> annotate_edge(own.S, source_node_id, target_node_id, LATERAL_MOVE),
              result |-> [Return(IF own.last_owned_at = None THEN value(target_node_id)
                                 ELSE 0)
                             EXCEPT !.succeeded = TRUE,
                                    !.parts.node_value = own.last_owned_at = None]]

connect_to_remote_machine(source_node_id, target_node_id, port_name, credential) ==
    LET v == connect_validation(source_node_id, target_node_id, port_name, credential)
    IN  IF source_node_id \notin Nodes \/ target_node_id \notin Nodes
        THEN [S |-> Cur,
              result |-> Raised("connect_to_remote_machine", target_node_id, "ValueError")]
        ELSE IF ~v.passed THEN [S |-> Cur, result |-> v.result]
        ELSE connect_success(source_node_id, target_node_id)

(***************************************************************************)
(* DefenderAgentActions                                                    *)
(***************************************************************************)
RECURSIVE SumOver(_, _)
SumOver(f, D) ==
    IF D = {} THEN 0 ELSE LET x == CHOOSE y \in D : TRUE IN f[x] + SumOver(f, D \ {x})
RECURSIVE ProdOver(_, _)
ProdOver(f, D) ==
    IF D = {} THEN 1 ELSE LET x == CHOOSE y \in D : TRUE IN f[x] * ProdOver(f, D \ {x})

total_service_weights(svc, n) ==
    SumOver([k \in 1..Len(svc[n]) |-> svc[n][k].sla_weight], 1..Len(svc[n]))
running_service_weights(svc, n) ==
    SumOver([k \in 1..Len(svc[n]) |-> IF svc[n][k].running THEN svc[n][k].sla_weight ELSE 0],
            1..Len(svc[n]))

\* faulty variant: running and total service weights are swapped
availability_swapped(st, svc, w) ==
    LET denom == [n \in Nodes |-> 1 + running_service_weights(svc, n)]
        adjusted == [n \in Nodes |->
                        IF st[n] = "Running"
                        THEN (1 + total_service_weights(svc, n))
                             * ProdOver(denom, Nodes \ {n})
                        ELSE 0]
    IN  [num |-> SumOver([n \in Nodes |-> adjusted[n] * w[n]], Nodes),
         den |-> SumOver(w, Nodes) * ProdOver(denom, Nodes)]

\* network_node_availability / total_node_weights as the exact fraction
\* num / den, over the common denominator of the nodes' availabilities
availability(st, svc, w) ==
    LET denom == [n \in Nodes |-> 1 + total_service_weights(svc, n)]
        adjusted == [n \in Nodes |->
                        IF st[n] = "Running"
                        THEN (1 + running_service_weights(svc, n))
                             * ProdOver(denom, Nodes \ {n})
                        ELSE 0]
    IN  [num |-> SumOver([n \in Nodes |-> adjusted[n] * w[n]], Nodes),
         den |-> SumOver(w, Nodes) * ProdOver(denom, Nodes)]

\* what a defender call leaves in `result`: its name and the exception raised
DefenderResult(op, node_id, raised) == Raised(op, node_id, raised)

(***************************************************************************)
(* Construction: AgentActions.__init__, DefenderAgentActions.__init__      *)
(***************************************************************************)
\* the environment and the empty ledger before the constructor's loop
Environment0 ==
    [node_properties |-> [n \in Nodes |-> InitialProperties(n)],
     agent_installed |-> [n \in Nodes |-> InitialAgentInstalled(n)],
     privilege_level |-> [n \in Nodes |-> InitialPrivilege(n)],
     edges |-> [e \in Nodes \X Nodes |-> None],
     discovered_nodes |-> <<>>,
     discovered_properties |-> [n \in Nodes |-> {}],
     last_attack |-> [n \in Nodes |-> {}],
     last_owned_at |-> [n \in Nodes |-> None],
     gathered_credentials |-> {},
     gathered_profiles |-> <<Profile("NoAuth", NoneStr, {}, NoneStr)>>,
     ip_local |-> FALSE]

\* `for i, node in environment.nodes(): if node.agent_installed: ...`
RECURSIVE constructor(_, _)
constructor(S, k) ==
    IF k > Len(NodeOrder) THEN S
    ELSE LET i == NodeOrder[k]
             S1 == mark_node_as_owned(S, i, LocalUser, TRUE).S
             S2 == mark_nodeproperties_as_discovered(S1, i,
                       global_properties \cap initial_properties, TRUE).S
         IN  constructor(IF S.agent_installed[i] THEN S2 ELSE S, k + 1)

NoProbe == [rules |-> <<>>, port_name |-> NoneStr, passing |-> FALSE, done |-> FALSE]

InitKernel(S) ==
    /\ node_properties = S.node_properties
    /\ agent_installed = S.agent_installed
    /\ privilege_level = S.privilege_level
    /\ edges = S.edges
    /\ discovered_nodes = S.discovered_nodes
    /\ discovered_properties = S.discovered_properties
    /\ last_attack = S.last_attack
    /\ last_owned_at = S.last_owned_at
    /\ gathered_credentials = S.gathered_credentials
    /\ gathered_profiles = S.gathered_profiles
    /\ ip_local = S.ip_local

\* the state after AgentActions(E, throws_on_invalid_actions = throws) and
\* DefenderAgentActions(E)
InitEnvironment(E, throws) ==
    /\ now = 0
    /\ last_reimaging = [n \in Nodes |-> None]
    /\ status = [n \in Nodes |-> "Running"]
    /\ services = [n \in Nodes |-> InitialServices(n)]
    /\ firewall = [n \in Nodes |-> InitialFirewall(n)]
    /\ sla_weight = [n \in Nodes |-> 1]
    /\ throws_on_invalid_actions = throws
    /\ InitKernel(constructor(E, 1))
    /\ node_reimaging_progress = [n \in Nodes |-> None]
    /\ network_availability = [num |-> 1, den |-> 1]
    /\ result = Raised("__init__", NoneStr, NoneStr)
    /\ history = [n \in Nodes |-> {}]

\* the lenient mode (throws_on_invalid_actions = False)
InitBase == InitEnvironment(Environment0, FALSE)

Init == InitBase /\ probe = NoProbe

(***************************************************************************)
(* Actions: one per call                                                   *)
(***************************************************************************)
\* the writes of a kernel call o = [S, result]
\* faulty variant: the unlocking of the local network is not kept
Apply_without_unlock(o) ==
    /\ node_properties' = o.S.node_properties
    /\ agent_installed' = o.S.agent_installed
    /\ privilege_level' = o.S.privilege_level
    /\ edges' = o.S.edges
    /\ discovered_nodes' = o.S.discovered_nodes
    /\ discovered_properties' = o.S.discovered_properties
    /\ last_attack' = o.S.last_attack
    /\ last_owned_at' = o.S.last_owned_at
    /\ gathered_credentials' = o.S.gathered_credentials
    /\ gathered_profiles' = o.S.gathered_profiles
    /\ ip_local' = ip_local
    /\ result' = o.result

Apply(o) ==
    /\ node_properties' = o.S.node_properties
    /\ agent_installed' = o.S.agent_installed
    /\ privilege_level' = o.S.privilege_level
    /\ edges' = o.S.edges
    /\ discovered_nodes' = o.S.discovered_nodes
    /\ discovered_properties' = o.S.discovered_properties
    /\ last_attack' = o.S.last_attack
    /\ last_owned_at' = o.S.last_owned_at
    /\ gathered_credentials' = o.S.gathered_credentials
    /\ gathered_profiles' = o.S.gathered_profiles
    /\ ip_local' = o.S.ip_local
    /\ result' = o.result

\* history after a call returned res
record_history(res, profile, vulnerability_id, local_or_remote) ==
    LET key == <<vulnerability_id, local_or_remote, res.precondition, TRUE>>
        old == {e \in history[res.node_id] : e.key = key}
        before == IF old = {} THEN 0 ELSE (CHOOSE e \in old : TRUE).n
        n == IF res.parts.bonus THEN (IF before = 0 THEN 1 ELSE 2) ELSE before
    IN  IF res.succeeded
        THEN [history EXCEPT ![res.node_id] =
                 (@ \ old) \cup {[key |-> key, profile |-> profile, n |-> n]}]
        ELSE history

ExploitLocal(node_id, vulnerability_id) ==
    \E o \in exploit_local_vulnerability(node_id, vulnerability_id) :
        /\ Apply(o)
        /\ history' = record_history(o.result, NoProfile, vulnerability_id, TRUE)
        /\ UNCHANGED <<status, last_reimaging, services, firewall, sla_weight,
                       throws_on_invalid_actions, defenderVars, now, probe>>

ExploitRemote(node_id, target_node_id, profile, vulnerability_id) ==
    \E o \in exploit_remote_vulnerability(node_id, target_node_id, profile,
                                          vulnerability_id) :
        /\ Apply(o)
        /\ history' = record_history(o.result, profile, vulnerability_id, FALSE)
        /\ UNCHANGED <<status, last_reimaging, services, firewall, sla_weight,
                       throws_on_invalid_actions, defenderVars, now, probe>>

Connect(source_node_id, target_node_id, port_name, credential) ==
    /\ Apply(connect_to_remote_machine(source_node_id, target_node_id, port_name,
                                       credential))
    /\ UNCHANGED <<status, last_reimaging, services, firewall, sla_weight,
                   throws_on_invalid_actions, defenderVars, now, history, probe>>

\* faulty variant: the agent survives the reimaging
ReimageNode_keeping_agent(node_id) ==
    /\ node_reimaging_progress' = [node_reimaging_progress EXCEPT ![node_id] = REIMAGING_DURATION]
    /\ IF ~reimagable(node_id)
       THEN /\ result' = DefenderResult("reimage_node", node_id, "AssertionError")
            /\ UNCHANGED <<worldVars, now, history>>
       ELSE /\ now < MaxReimagings
            /\ now' = now + 1
            /\ privilege_level' = [privilege_level EXCEPT ![node_id] = NoAccess]
            /\ status' = [status EXCEPT ![node_id] = "Imaging"]
            /\ last_reimaging' = [last_reimaging EXCEPT ![node_id] = now + 1]
            /\ history' = [history EXCEPT ![node_id] = {}]
            /\ result' = DefenderResult("reimage_node", node_id, NoneStr)
            /\ UNCHANGED <<node_properties, agent_installed, services, firewall,
                           sla_weight, edges>>
    /\ UNCHANGED <<ledgerVars, throws_on_invalid_actions, network_availability, probe>>

\* faulty variant: the reimaging is not stamped in last_reimaging
ReimageNode_unstamped(node_id) ==
    /\ node_reimaging_progress' = [node_reimaging_progress EXCEPT ![node_id] = REIMAGING_DURATION]
    /\ IF ~reimagable(node_id)
       THEN /\ result' = DefenderResult("reimage_node", node_id, "AssertionError")
            /\ UNCHANGED <<worldVars, now, history>>
       ELSE /\ now < MaxReimagings
            /\ now' = now + 1
            /\ agent_installed' = [agent_installed EXCEPT ![node_id] = FALSE]
            /\ privilege_level' = [privilege_level EXCEPT ![node_id] = NoAccess]
            /\ status' = [status EXCEPT ![node_id] = "Imaging"]
            /\ history' = [history EXCEPT ![node_id] = {}]
            /\ result' = DefenderResult("reimage_node", node_id, NoneStr)
            /\ UNCHANGED <<node_properties, services, firewall, sla_weight, edges,
                           last_reimaging>>
    /\ UNCHANGED <<ledgerVars, throws_on_invalid_actions, network_availability, probe>>

\* reimage_node: the countdown is scheduled before the reimagable assertion
ReimageNode(node_id) ==
    /\ node_reimaging_progress' = [node_reimaging_progress EXCEPT ![node_id] = REIMAGING_DURATION]
    /\ IF ~reimagable(node_id)
       THEN /\ result' = DefenderResult("reimage_node", node_id, "AssertionError")
            /\ UNCHANGED <<worldVars, now, history>>
       ELSE /\ now < MaxReimagings
            /\ now' = now + 1
            /\ agent_installed' = [agent_installed EXCEPT ![node_id] = FALSE]
            /\ privilege_level' = [privilege_level EXCEPT ![node_id] = NoAccess]
            /\ status' = [status EXCEPT ![node_id] = "Imaging"]
            /\ last_reimaging' = [last_reimaging EXCEPT ![node_id] = now + 1]
            /\ history' = [history EXCEPT ![node_id] = {}]
            /\ result' = DefenderResult("reimage_node", node_id, NoneStr)
            /\ UNCHANGED <<node_properties, services, firewall, sla_weight, edges>>
    /\ UNCHANGED <<ledgerVars, throws_on_invalid_actions, network_availability, probe>>

OnAttackerStepTaken ==
    LET done == {n \in Nodes : node_reimaging_progress[n] = 0}
        status1 == [n \in Nodes |-> IF n \in done THEN "Running" ELSE status[n]]
        a == availability(status1, services, sla_weight)
    IN  /\ node_reimaging_progress' =
               [n \in Nodes |-> IF node_reimaging_progress[n] > 0
                                THEN node_reimaging_progress[n] - 1 ELSE None]
        /\ status' = status1
        /\ IF SumOver(sla_weight, Nodes) = 0
           THEN /\ UNCHANGED network_availability
                /\ result' = DefenderResult("on_attacker_step_taken", NoneStr,
                                            "ZeroDivisionError")
           ELSE /\ network_availability' = a
                /\ result' = DefenderResult("on_attacker_step_taken", NoneStr,
                                 IF a.num <= a.den /\ a.num >= 0 THEN NoneStr
                                 ELSE "AssertionError")
        /\ UNCHANGED <<node_properties, agent_installed, privilege_level, last_reimaging,
                       services, firewall, sla_weight, edges, ledgerVars,
                       throws_on_invalid_actions, now, history, probe>>

\* add_or_patch_rule of override_firewall_rule
\* a variant that patches the first matching rule only
add_or_patch_first(rules, port_name, permission) ==
    LET matching == {k \in 1..Len(rules) : rules[k].port = port_name}
    IN  IF matching # {}
        THEN LET first == CHOOSE k \in matching : \A j \in matching : k <= j
             IN  [rules EXCEPT ![first] = [port |-> port_name, permission |-> permission]]
        ELSE Append(rules, [port |-> port_name, permission |-> permission])
RECURSIVE patch_rules(_, _, _)
patch_rules(rules, port_name, permission) ==
    IF rules = <<>> THEN <<>>
    ELSE <<IF Head(rules).port = port_name THEN FirewallRule(Head(rules).port, permission)
           ELSE Head(rules)>> \o patch_rules(Tail(rules), port_name, permission)
add_or_patch_rule(rules, port_name, permission) ==
    LET has_matching_rule == \E k \in 1..Len(rules) : rules[k].port = port_name
    IN  IF has_matching_rule THEN patch_rules(rules, port_name, permission)
        ELSE Append(rules, FirewallRule(port_name, permission))

OverrideFirewallRule(node_id, port_name, incoming, permission) ==
    /\ firewall' =
           IF incoming
           THEN [firewall EXCEPT ![node_id].incoming =
                                     add_or_patch_rule(@, port_name, permission)]
           ELSE [firewall EXCEPT ![node_id].outgoing =
                                     add_or_patch_rule(@, port_name, permission)]
    /\ result' = DefenderResult("override_firewall_rule", node_id, NoneStr)
    /\ UNCHANGED <<node_properties, agent_installed, privilege_level, status, last_reimaging,
                   services, sla_weight, edges, ledgerVars, throws_on_invalid_actions,
                   defenderVars, now, history, probe>>

\* `for service in node_data.services: if service.name == port_name: ...`
set_running(svc, port_name, running) ==
    [k \in 1..Len(svc) |-> IF svc[k].name = port_name
                           THEN [svc[k] EXCEPT !.running = running] ELSE svc[k]]

\* stop_service (running = FALSE) and start_service (running = TRUE)
SetService(op, node_id, port_name, running) ==
    /\ IF status[node_id] # "Running"
       THEN /\ result' = DefenderResult(op, node_id, "AssertionError")
            /\ UNCHANGED services
       ELSE /\ result' = DefenderResult(op, node_id, NoneStr)
            /\ services' = [services EXCEPT ![node_id] = set_running(@, port_name, running)]
    /\ UNCHANGED <<node_properties, agent_installed, privilege_level, status, last_reimaging,
                   firewall, sla_weight, edges, ledgerVars, throws_on_invalid_actions,
                   defenderVars, now, history, probe>>
StopService(node_id, port_name) == SetService("stop_service", node_id, port_name, FALSE)
StartService(node_id, port_name) == SetService("start_service", node_id, port_name, TRUE)

(***************************************************************************)
(* Specifications.  Every one starts from the constructed environment; the *)
(* calls and the arguments the agents choose from differ.                  *)
(***************************************************************************)
Sources == {"n0", "n1"}
Targets == {"n1", "n2"}
NoAuth == Profile("NoAuth", NoneStr, {}, NoneStr)
AliceDoctor == Profile("alice", NoneStr, {"isDoctor"}, NoneStr)
AliceLocal == Profile("alice", NoneStr, {}, "local")

\* the vulnerabilities of the attack path n0 -> n1 -> n2
PathVulnerabilityIDs ==
    {"ScanPage", "DumpCreds", "Escalate", "ReadMail", "Probe", "Login", "Move"}

\* the attacker alone: every exploit of the attack path and every connection
Next ==
    \/ \E n \in Sources, v \in PathVulnerabilityIDs : ExploitLocal(n, v)
    \/ \E n \in Sources, P \in Profiles, v \in PathVulnerabilityIDs :
           ExploitRemote(n, "n1", P, v)
    \/ \E P \in Profiles : ExploitRemote("n0", "n2", P, "Login")
    \/ \E n \in Sources, t \in Targets, p \in PortNames, c \in CredentialIDs :
           Connect(n, t, p, c)

Spec == Init /\ [][Next]_vars

\* the attacker against a defender that reimages n1
NextDefender ==
    \/ ExploitLocal("n0", "DumpCreds")
    \/ \E n \in Sources, v \in {"Probe", "Move"} : ExploitRemote(n, "n1", NoAuth, v)
    \/ ExploitRemote("n1", "n2", NoAuth, "Probe")
    \/ ExploitRemote("n0", "n1", AliceDoctor, "Login")
    \/ Connect("n0", "n1", "ssh", "c1")
    \/ ReimageNode("n1")
    \/ OnAttackerStepTaken

SpecDefender == Init /\ [][NextDefender]_vars

\* connections against a defender that overrides firewall rules, stops and
\* starts services and reimages n1
NextConnect ==
    \/ \E v \in {"DumpCreds"} : ExploitLocal("n0", v)
    \/ \E n \in Sources, t \in Targets, p \in PortNames, c \in CredentialIDs :
           Connect(n, t, p, c)
    \/ \E n \in Sources, m \in {"ALLOW", "BLOCK"} :
           OverrideFirewallRule(n, "ssh", n = "n1", m)
    \/ StopService("n1", "ssh")
    \/ StartService("n1", "ssh")
    \/ ReimageNode("n1")
    \/ OnAttackerStepTaken

SpecConnect == Init /\ [][NextConnect]_vars

\* both modes of throws_on_invalid_actions, and calls that misuse the
\* interface: a node id outside the network, a vulnerability no node and no
\* library has, a source without agent, a credential never gathered
UnknownNode == "nx"
MissingVulnerability == "Nope"
ModeNodes == {"n0", "n1", UnknownNode}
ModeVulnerabilityIDs ==
    {"ScanPage", "DumpCreds", "AskAlice", "Shared", MissingVulnerability}
Alice == Profile("alice", NoneStr, {}, NoneStr)

InitModes ==
    /\ \E throws \in BOOLEAN : InitEnvironment(Environment0, throws)
    /\ probe = NoProbe

NextModes ==
    \/ \E n \in ModeNodes, v \in ModeVulnerabilityIDs : ExploitLocal(n, v)
    \/ \E n \in ModeNodes, t \in {"n1", "n2", UnknownNode}, P \in {NoAuth, Alice},
           v \in {"Login", MissingVulnerability} :
           ExploitRemote(n, t, P, v)
    \/ \E n \in ModeNodes, t \in {"n1", "n2", UnknownNode}, c \in CredentialIDs :
           Connect(n, t, "ssh", c)

SpecModes == InitModes /\ [][NextModes]_vars

\* worlds in which some nodes carry the global property g among their own
\* properties: the attack path with probes, a lateral move and a connection
GlobalProperty == "g"
EnvironmentCarrying(carriers) ==
    [Environment0 EXCEPT !.node_properties =
        [n \in Nodes |-> IF n \in carriers THEN @[n] \cup {GlobalProperty} ELSE @[n]]]

InitGlobal ==
    /\ \E carriers \in SUBSET Nodes : InitEnvironment(EnvironmentCarrying(carriers), FALSE)
    /\ probe = NoProbe

NextGlobal ==
    \/ \E v \in {"ScanPage", "DumpCreds", "ReadMail"} : ExploitLocal("n0", v)
    \/ \E n \in Sources, t \in Targets : ExploitRemote(n, t, NoAuth, "Probe")
    \/ \E n \in Sources : ExploitRemote(n, "n1", NoAuth, "Move")
    \/ Connect("n0", "n1", "ssh", "c1")

SpecGlobal == InitGlobal /\ [][NextGlobal]_vars

\* the attacker taking n1 against a defender that reimages any node, n0
\* (not reimagable) included
NextReimage ==
    \/ ExploitLocal("n0", "DumpCreds")
    \/ \E v \in {"Probe", "Move"} : ExploitRemote("n0", "n1", NoAuth, v)
    \/ Connect("n0", "n1", "ssh", "c1")
    \/ \E n \in Sources : ReimageNode(n)
    \/ OnAttackerStepTaken

SpecReimage == Init /\ [][NextReimage]_vars

\* __is_passing_firewall_rules on its own: every rule list of at most
\* MaxRules rules and every port
Rules == {FirewallRule(p, m) : p \in PortNames, m \in {"ALLOW", "BLOCK"}}
RuleLists == UNION {[1..k -> Rules] : k \in 0..MaxRules}

InitFirewall ==
    /\ InitBase
    /\ probe \in {[rules |-> r, port_name |-> p, passing |-> FALSE, done |-> FALSE] :
                     r \in RuleLists, p \in PortNames}

CheckFirewall ==
    /\ ~probe.done
    /\ probe' = [probe EXCEPT !.passing = is_passing_firewall_rules(probe.rules,
                                                                    probe.port_name),
                              !.done = TRUE]
    /\ UNCHANGED <<worldVars, ledgerVars, throws_on_invalid_actions, defenderVars, now,
                   result, history>>

SpecFirewall == InitFirewall /\ [][CheckFirewall]_vars

\* the local network: profiles leaked with ip.local, exploits that ask for
\* ip.local, and a defender that reimages n1
NextUnlock ==
    \/ ExploitLocal("n0", "ScanPage")
    \/ \E t \in Targets, P \in {NoAuth, AliceLocal}, v \in {"Leak", "Internal"} :
           ExploitRemote("n0", t, P, v)
    \/ ReimageNode("n1")
    \/ OnAttackerStepTaken

SpecUnlock == Init /\ [][NextUnlock]_vars

\* override_firewall_rule on its own: n1 starts with every rule list of at
\* most MaxRules rules in both directions, ports repeated included
InitOverride ==
    /\ now = 0
    /\ last_reimaging = [n \in Nodes |-> None]
    /\ status = [n \in Nodes |-> "Running"]
    /\ services = [n \in Nodes |-> InitialServices(n)]
    /\ \E r \in RuleLists :
           firewall = [n \in Nodes |->
                          IF n = "n1" THEN [incoming |-> r, outgoing |-> r]
                          ELSE InitialFirewall(n)]
    /\ sla_weight = [n \in Nodes |-> 1]
    /\ throws_on_invalid_actions = FALSE
    /\ InitKernel(constructor(Environment0, 1))
    /\ node_reimaging_progress = [n \in Nodes |-> None]
    /\ network_availability = [num |-> 1, den |-> 1]
    /\ result = Raised("__init__", NoneStr, NoneStr)
    /\ history = [n \in Nodes |-> {}]
    /\ probe = NoProbe

NextOverride ==
    \E p \in PortNames, incoming \in BOOLEAN, m \in {"ALLOW", "BLOCK"} :
        OverrideFirewallRule("n1", p, incoming, m)

SpecOverride == InitOverride /\ [][NextOverride]_vars

\* on_attacker_step_taken on its own: every machine status, every running
\* flag and every weight up to MaxWeight
MachineStatus == {"Stopped", "Running", "Imaging"}

InitAvail ==
    /\ now = 0
    /\ last_reimaging = [n \in Nodes |-> None]
    /\ status \in [Nodes -> MachineStatus]
    /\ \E r \in BOOLEAN, w \in 0..MaxWeight :
           services = [n \in Nodes |->
                          IF n = "n1" THEN <<ListeningService("ssh", r, {"c1"}, w)>>
                          ELSE <<>>]
    /\ firewall = [n \in Nodes |-> InitialFirewall(n)]
    /\ sla_weight \in [Nodes -> 0..MaxWeight]
    /\ throws_on_invalid_actions = FALSE
    /\ InitKernel(constructor(Environment0, 1))
    /\ node_reimaging_progress = [n \in Nodes |-> None]
    /\ network_availability = [num |-> 1, den |-> 1]
    /\ result = Raised("__init__", NoneStr, NoneStr)
    /\ history = [n \in Nodes |-> {}]
    /\ probe = NoProbe

NextAvail ==
    \/ OnAttackerStepTaken
    \/ StopService("n1", "ssh")
    \/ StartService("n1", "ssh")

SpecAvail == InitAvail /\ [][NextAvail]_vars

(***************************************************************************)
(* Properties                                                              *)
(***************************************************************************)
ExploitOps == {"exploit_local_vulnerability", "exploit_remote_vulnerability"}
\* a failure result of the kernel: the chosen branch's error class is not
\* NOERROR
IsFailure(r) ==
    r.op \in ExploitOps /\ r.raised = NoneStr /\ r.error_type \notin {NoneStr, "NOERROR"}

\* C1 - failure atomicity: a step in which an exploit returns a failure
\* result (error class IP_LOCAL_NEEDED, ROLES_WRONG, WRONG_AUTH, NO_AUTH,
\* PROPERTY_WRONG, REPEATED or OTHER) changes no field of the world (node
\* properties, privilege, agent_installed, status, edges) and no field of
\* the ledger (discovered nodes and properties, gathered credentials and
\* profiles, ip_local, last_owned_at); last_attack is left free.
C1_FailureAtomicity ==
    [][IsFailure(result') =>
          UNCHANGED <<node_properties, privilege_level, agent_installed, status, edges,
                      discovered_nodes, discovered_properties, gathered_credentials,
                      gathered_profiles, ip_local, last_owned_at>>]_vars

\* a repeated LeakedCredentials exploit: the failure comes after the dry run
\* of the branch
C1_Witness ==
    /\ IsFailure(result)
    /\ result.error_type = "REPEATED"
    /\ result.outcome.kind = "LeakedCredentials"

\* C2 - post-commit accounting check: no exploit that reaches the commit
\* phase fails the assertion `reward == max_reward`.
C2_AssertionNeverFails ==
    ~(result.op \in ExploitOps /\ result.error_type = "NOERROR"
      /\ result.raised = "AssertionError")

\* the exploit of history entry e of node N, issued again from node src
Again(N, e, src) ==
    IF e.key[2] THEN exploit_local_vulnerability(N, e.key[1])
    ELSE exploit_remote_vulnerability(src, N, e.profile, e.key[1])
\* return o repeats vulnerability V: REPEAT - cost, the same outcome, and no
\* discovery
IsRepeat(o, V) ==
    /\ o.result.raised = NoneStr
    /\ o.result.reward = REPEAT - V.cost
    /\ o.result.outcome = V.outcome[1]
    /\ o.S.discovered_nodes = discovered_nodes
    /\ o.S.discovered_properties = discovered_properties
    /\ o.S.gathered_credentials = gathered_credentials
    /\ o.S.gathered_profiles = gathered_profiles
\* the single-branch exploits that succeeded on N since its last reimaging
SucceededSingle(N) ==
    {e \in history[N] : ~NodeVuln(N, e.key[1]).is_list}

\* C3 as stated - repeat penalty: once an exploit of a single-branch
\* vulnerability has succeeded on N and N has not been reimaged since, the
\* same exploit (same vulnerability id, kind, precondition and profile),
\* issued again from any node, returns REPEAT - cost with the same outcome
\* and discovers nothing.
C3_RepeatPenalty ==
    \A N \in Nodes : \A e \in SucceededSingle(N) : \A src \in Nodes :
        \A o \in Again(N, e, src) : IsRepeat(o, NodeVuln(N, e.key[1]))

\* C3 amended - repeat penalty: as above, for the exploit issued again from
\* a node on which the agent is installed.
C3_RepeatPenaltyFromOwnedNode ==
    \A N \in Nodes : \A e \in SucceededSingle(N) : \A src \in Nodes :
        agent_installed[src] =>
            \A o \in Again(N, e, src) : IsRepeat(o, NodeVuln(N, e.key[1]))

\* n1 was reimaged, exploited again with success, and the exploit repeated
C3_Witness ==
    /\ IsFailure(result)
    /\ result.error_type = "REPEATED"
    /\ result.reward = REPEAT - 1
    /\ result.node_id = "n1"
    /\ result.outcome.kind = "ProbeSucceeded"
    /\ last_reimaging["n1"] # None
    /\ \E e \in history["n1"] : e.key[1] = "Probe"

\* C4 - one-time bonus: for every node N and every key, at most one returned
\* reward since the last reimaging of N (since the start if there was none)
\* included NEW_SUCCESSFULL_ATTACK_REWARD.
C4_OneTimeBonus ==
    \A N \in Nodes : \A e \in history[N] : e.n <= 1

\* after a reimaging of n1: a bonus was returned for a key, and the exploit
\* was then repeated
C4_Witness ==
    /\ last_reimaging["n1"] # None
    /\ result.node_id = "n1"
    /\ result.error_type = "REPEATED"
    /\ \E e \in history["n1"] : e.n = 1 /\ e.key[3] = result.precondition

\* profile new carries everything profile old carries
Extends(new, old) ==
    /\ new.username = old.username
    /\ old.id # NoneStr => new.id = old.id
    /\ old.ip # NoneStr => new.ip = old.ip
    /\ old.roles \subseteq new.roles

\* C5 - monotone discovery: in every step (exploit, connect, defender,
\* reimaging included) the discovered nodes, each node's discovered
\* properties, the gathered credentials and the gathered profiles only grow.
C5_MonotoneDiscovery ==
    [][/\ SeqRange(discovered_nodes) \subseteq SeqRange(discovered_nodes')
       /\ \A n \in SeqRange(discovered_nodes) :
              discovered_properties[n] \subseteq discovered_properties'[n]
       /\ gathered_credentials \subseteq gathered_credentials'
       /\ Len(gathered_profiles) <= Len(gathered_profiles')
       /\ \A k \in 1..Len(gathered_profiles) :
              Extends(gathered_profiles'[k], gathered_profiles[k])]_vars

\* a reimaging of n1 that left a filled ledger as it was
C5_Witness ==
    /\ result.op = "reimage_node" /\ result.raised = NoneStr
    /\ "n1" \in SeqRange(discovered_nodes)
    /\ {"g", "q"} \subseteq discovered_properties["n1"]
    /\ gathered_credentials # {}
    /\ Len(gathered_profiles) > 1

\* C6 - privilege monotonicity: in every step the privilege of every node
\* stays or grows, except in a reimage_node step on that node, which resets
\* it to NoAccess.
C6_PrivilegeMonotone ==
    [][\A n \in Nodes :
          \/ privilege_level'[n] >= privilege_level[n]
          \/ /\ result'.op = "reimage_node" /\ result'.node_id = n
             /\ privilege_level'[n] = NoAccess]_vars

\* n1 is owned again after a reimaging took its privilege
C6_Witness ==
    /\ last_reimaging["n1"] # None
    /\ agent_installed["n1"]
    /\ privilege_level["n1"] = LocalUser

\* the checks of a connection in the order of the claim, and their penalties
ConnectChecks(src, tgt, port, cred) ==
    <<agent_installed[src],
      tgt \in SeqRange(discovered_nodes),
      cred \in gathered_credentials,
      is_passing_firewall_rules(firewall[src].outgoing, port),
      is_passing_firewall_rules(firewall[tgt].incoming, port),
      \E k \in 1..Len(services[tgt]) : services[tgt][k].name = port,
      status[tgt] = "Running",
      \E k \in 1..Len(services[tgt]) :
          /\ services[tgt][k].name = port /\ services[tgt][k].running
          /\ cred \in services[tgt][k].allowedCredentials>>
ConnectPenalties ==
    <<INVALID_ACTION, INVALID_ACTION, INVALID_ACTION, BLOCKED_BY_LOCAL_FIREWALL,
      BLOCKED_BY_REMOTE_FIREWALL, SCANNING_UNOPEN_PORT, MACHINE_NOT_RUNNING, WRONG_PASSWORD>>
Failing(checks) == {k \in 1..Len(checks) : ~checks[k]}
First(K) == CHOOSE k \in K : \A j \in K : k <= j

\* C7 - connect validation order (lenient mode, existing nodes): when some
\* check fails, the result carries the penalty of the first failing check
\* in the order source owned, target discovered, credential gathered, source
\* outgoing firewall, target incoming firewall, target listens on the port,
\* target running, service running and credential allowed; its outcome is
\* None and world and ledger are unchanged.
C7_ConnectValidationOrder ==
    \A src \in Nodes, tgt \in Nodes, port \in PortNames, cred \in CredentialIDs :
        LET failing == Failing(ConnectChecks(src, tgt, port, cred))
            o == connect_to_remote_machine(src, tgt, port, cred)
        IN  failing # {} =>
                /\ o.result.raised = NoneStr
                /\ o.result.reward = ConnectPenalties[First(failing)]
                /\ o.result.outcome = NoOutcome
                /\ o.S = Cur

\* a connection to n1 answered MACHINE_NOT_RUNNING while n1 is being
\* reimaged and its ssh service is stopped: the last two checks both fail
C7_Witness ==
    /\ result.op = "connect_to_remote_machine" /\ result.node_id = "n1"
    /\ result.raised = NoneStr /\ ~result.succeeded
    /\ result.reward = MACHINE_NOT_RUNNING
    /\ result.outcome = NoOutcome
    /\ status["n1"] = "Imaging"
    /\ \A k \in 1..Len(services["n1"]) : ~services["n1"][k].running

\* C8 - connect success: a connection that passes every check returns
\* LateralMove; to a target that is currently owned it returns REPEAT and
\* changes nothing; otherwise the target becomes owned (agent_installed,
\* last_owned_at = now), the edge source -> target is LATERAL_MOVE and the
\* reward is value(target) the first time the target is owned, 0 afterwards.
C8_ConnectSuccess ==
    \A src \in Nodes, tgt \in Nodes, port \in PortNames, cred \in CredentialIDs :
        LET o == connect_to_remote_machine(src, tgt, port, cred)
        IN  Failing(ConnectChecks(src, tgt, port, cred)) = {} =>
                /\ o.result.raised = NoneStr
                /\ o.result.outcome = LateralMove
                /\ IF agent_installed[tgt]
                   THEN o.result.reward = REPEAT /\ o.S = Cur
                   ELSE /\ o.S.agent_installed[tgt]
                        /\ o.S.last_owned_at[tgt] = now
                        /\ o.S.edges[<<src, tgt>>] = LATERAL_MOVE
                        /\ o.result.reward = IF last_owned_at[tgt] = None
                                             THEN value(tgt) ELSE 0

\* n1 is owned by a second connection, after a reimaging: no value again
C8_Witness ==
    /\ result.op = "connect_to_remote_machine" /\ result.node_id = "n1"
    /\ result.succeeded
    /\ result.outcome = LateralMove
    /\ result.reward = 0
    /\ last_reimaging["n1"] # None
    /\ agent_installed["n1"]
    /\ \E src \in Nodes : edges[<<src, "n1">>] = LATERAL_MOVE

\* the rules of a list that match a port
Matching(rules, port) == {k \in 1..Len(rules) : rules[k].port = port}

\* C9 - firewall order: the verdict is the permission of the first rule of
\* the list whose port matches, and BLOCK when no rule matches.
C9_FirewallOrder ==
    probe.done =>
        LET M == Matching(probe.rules, probe.port_name)
        IN  probe.passing = (M # {} /\ probe.rules[First(M)].permission = "ALLOW")

\* a list with two rules for the port, the first allowing and a later one
\* blocking: the traffic passes
C9_Witness ==
    /\ probe.done /\ probe.passing
    /\ \E j, k \in Matching(probe.rules, probe.port_name) :
           j < k /\ probe.rules[k].permission = "BLOCK"

\* C10 - availability bounds: after on_attacker_step_taken, with node
\* weights not all zero, 0 <= network_availability <= 1; it is 1 when every
\* node and every service runs and 0 when no node runs.
C10_AvailabilityBounds ==
    (result.op = "on_attacker_step_taken" /\ SumOver(sla_weight, Nodes) # 0) =>
        /\ result.raised = NoneStr
        /\ network_availability.den > 0
        /\ 0 <= network_availability.num
        /\ network_availability.num <= network_availability.den
        /\ (\A n \in Nodes : status[n] # "Running") => network_availability.num = 0
        /\ (\A n \in Nodes :
               /\ status[n] = "Running"
               /\ \A k \in 1..Len(services[n]) : services[n][k].running)
           => network_availability.num = network_availability.den

\* an availability strictly between 0 and 1, with a stopped service
C10_Witness ==
    /\ result.op = "on_attacker_step_taken" /\ result.raised = NoneStr
    /\ 0 < network_availability.num
    /\ network_availability.num < network_availability.den
    /\ status["n1"] = "Running"
    /\ \E k \in 1..Len(services["n1"]) :
           ~services["n1"][k].running /\ services["n1"][k].sla_weight > 0

(***************************************************************************)
(* Error handling and branch selection                                     *)
(***************************************************************************)
\* the vulnerability the call resolves, and whether there is one
Present(n, v) == v \in LibraryIds \cup NodeVulnIds(n)
Resolved(n, v) == IF v \in LibraryIds THEN Library(v) ELSE NodeVuln(n, v)
AllVulnerabilityIDs == VulnerabilityIDs \cup {MissingVulnerability}

\* branch i of V cannot succeed for this profile on node n: it needs the
\* local network, the profile or a property is wrong, or it is a deception
\* trigger
BranchFails(n, profile, V, i) ==
    LET precondition == V.precondition[i]
    IN  \/ /\ <<"ip", "local">> \in get_symbols(precondition.expression)
           /\ ~(~profile.none /\ profile.ip = "local")
        \/ ~check_profile(profile, precondition).is_true
        \/ ~check_properties_after_profile_check(Cur, n, profile, precondition)
        \/ V.outcome[i].kind = "ExploitFailed"

\* an exploit of an existing vulnerability of the expected type on a running
\* node, no branch of which can succeed
GameplayFailure(n, profile, v, type) ==
    /\ status[n] = "Running"
    /\ Present(n, v)
    /\ Resolved(n, v).type = type
    /\ \A i \in 1..Len(Resolved(n, v).precondition) :
           BranchFails(n, profile, Resolved(n, v), i)

Penalised(res) == res.raised = NoneStr /\ res.reward < 0 /\ ~res.succeeded

\* C11: a gameplay failure never raises.  Whenever a local exploit from an
\* owned node, a remote exploit from an owned node on a discovered node, or
\* a connection with a gathered credential from an owned node to a
\* discovered node fails for a gameplay reason (profile, property, firewall,
\* port, credential, deception trigger), the call returns an ActionResult
\* with a negative reward and raises nothing -- a local exploit, which
\* carries no profile, of a vulnerability whose precondition names a
\* username included.
C11_GameplayFailuresNeverRaise ==
    /\ \A n \in Nodes, v \in VulnerabilityIDs :
           (agent_installed[n] /\ GameplayFailure(n, NoProfile, v, "LOCAL"))
               => \A o \in exploit_local_vulnerability(n, v) : Penalised(o.result)
    /\ \A n \in Nodes, t \in Nodes, P \in Profiles, v \in VulnerabilityIDs :
           (agent_installed[n] /\ is_discovered(Cur, t)
                /\ GameplayFailure(t, P, v, "REMOTE"))
               => \A o \in exploit_remote_vulnerability(n, t, P, v) : Penalised(o.result)
    /\ \A n \in Nodes, t \in Nodes, p \in PortNames, c \in gathered_credentials :
           (agent_installed[n] /\ is_discovered(Cur, t)
                /\ ~connect_to_remote_machine(n, t, p, c).result.succeeded)
               => Penalised(connect_to_remote_machine(n, t, p, c).result)

\* what the two exploit calls return for a vulnerability the node lacks
Suspicious(o) ==
    /\ o.result.raised = NoneStr
    /\ o.result.reward = SUPSPICIOUSNESS
    /\ o.result.outcome = NoOutcome
    /\ o.S = Cur

\* the returns of every exploit that passes the checks of its entry point
\* and names a vulnerability the running target lacks
MissingVulnerabilityReturns ==
    UNION ({exploit_local_vulnerability(n, v) :
               <<n, v>> \in {x \in Nodes \X AllVulnerabilityIDs :
                   /\ agent_installed[x[1]] /\ status[x[1]] = "Running"
                   /\ ~Present(x[1], x[2])}}
           \cup
           {exploit_remote_vulnerability(x[1], x[2], x[3], x[4]) :
               x \in {y \in Nodes \X Nodes \X Profiles \X AllVulnerabilityIDs :
                   /\ agent_installed[y[1]] /\ is_discovered(Cur, y[2])
                   /\ status[y[2]] = "Running" /\ ~Present(y[2], y[4])}})

\* C12 as stated: an exploit of a vulnerability the node lacks returns
\* SUSPICIOUSNESS (-50) with outcome None in lenient mode and raises in
\* strict mode.
C12_MissingVulnerabilityByMode ==
    \A o \in MissingVulnerabilityReturns :
        IF throws_on_invalid_actions THEN o.result.raised # NoneStr ELSE Suspicious(o)

\* C12: an exploit of a vulnerability the node lacks returns SUSPICIOUSNESS
\* (-50) with outcome None and changes nothing, in lenient and in strict mode
\* alike.
C12_MissingVulnerabilityIsSuspicious ==
    \A o \in MissingVulnerabilityReturns : Suspicious(o)

\* a strict-mode exploit of a missing vulnerability has returned
C12_Witness ==
    /\ throws_on_invalid_actions
    /\ result.op \in {"exploit_local_vulnerability", "exploit_remote_vulnerability"}
    /\ result.reward = SUPSPICIOUSNESS
    /\ result.reward_string = "SUSPICIOUSNESS action"

\* the three ways the entry points count a call as structurally invalid
UnknownId(n) == n \notin Nodes
UnownedSource(n) == n \in Nodes /\ ~agent_installed[n]
UndiscoveredTarget(t) == t \in Nodes /\ ~is_discovered(Cur, t)

Invalid(res) ==
    res.raised = NoneStr /\ res.reward = INVALID_ACTION /\ res.outcome = NoOutcome

\* the results of every structurally invalid call whose node ids are in NS
MisuseResults(NS) ==
    {o.result : o \in UNION {exploit_local_vulnerability(x[1], x[2]) :
        x \in {y \in NS \X AllVulnerabilityIDs :
                  UnknownId(y[1]) \/ UnownedSource(y[1])}}}
    \cup
    {o.result : o \in UNION {exploit_remote_vulnerability(x[1], x[2], NoAuth, x[3]) :
        x \in {y \in NS \X NS \X AllVulnerabilityIDs :
                  \/ UnknownId(y[1]) \/ UnknownId(y[2])
                  \/ UnownedSource(y[1]) \/ UndiscoveredTarget(y[2])}}}
    \cup
    {connect_to_remote_machine(x[1], x[2], x[3], x[4]).result :
        x \in {y \in NS \X NS \X PortNames \X CredentialIDs :
                  \/ UnknownId(y[1]) \/ UnknownId(y[2])
                  \/ UnownedSource(y[1]) \/ UndiscoveredTarget(y[2])
                  \/ y[4] \notin gathered_credentials}}

RECURSIVE tentative(_, _, _, _)
tentative(L, C, V, i) ==
    IF i > Len(V.precondition) THEN <<>>
    ELSE <<The({IF alone.max_reward_list = <<>>
                THEN [reward |-> FLOAT_MIN, outcome |-> NoOutcome]
                ELSE [reward |-> alone.max_reward_list[1],
                      outcome |-> alone.max_outcome_list[1]] :
                alone \in {eval_branch(Lists(L.S), C, V, i)}})>>
         \o tentative(eval_branch(L, C, V, i), C, V, i + 1)

\* res is what some maximal branch of T earns
FromMaximalBranch(res, V, T) ==
    \E k \in 1..Len(T) :
        /\ \A j \in 1..Len(T) : T[j].reward <= T[k].reward
        /\ res.reward = T[k].reward
        /\ res.outcome = T[k].outcome
        /\ res.precondition = V.precondition[k].id
        /\ res.reward_string = V.reward_string[k]

LocalArguments(n, v) ==
    [op |-> "exploit_local_vulnerability", expected_type |-> "LOCAL",
     vulnerability_id |-> v, node_id |-> n, profile |-> NoProfile,
     local_or_remote |-> TRUE, failed_penalty |-> LOCAL_EXPLOIT_FAILED,
     throw_if_vulnerability_not_present |-> FALSE]
RemoteArguments(t, P, v) ==
    [op |-> "exploit_remote_vulnerability", expected_type |-> "REMOTE",
     vulnerability_id |-> v, node_id |-> t, profile |-> P,
     local_or_remote |-> FALSE, failed_penalty |-> FAILED_REMOTE_EXPLOIT,
     throw_if_vulnerability_not_present |-> FALSE]

\* the exploit reaches the branch loop
Evaluated(n, v, type) ==
    status[n] = "Running" /\ Present(n, v) /\ Resolved(n, v).type = type

\* C14: branch selection.  Whenever an exploit that reaches the branch loop
\* returns, the returned reward is the maximum over the branches of the
\* tentative reward, and the returned outcome, precondition and reward
\* string are those of one and the same branch attaining that maximum.
C14_BranchSelection ==
    /\ \A n \in Nodes, v \in VulnerabilityIDs :
           (agent_installed[n] /\ Evaluated(n, v, "LOCAL")) =>
               \A o \in exploit_local_vulnerability(n, v) :
                   o.result.raised = NoneStr =>
                       FromMaximalBranch(o.result, Resolved(n, v),
                           tentative(Lists(Cur), LocalArguments(n, v), Resolved(n, v), 1))
    /\ \A n \in Nodes, t \in Nodes, P \in Profiles, v \in VulnerabilityIDs :
           (agent_installed[n] /\ is_discovered(Cur, t) /\ Evaluated(t, v, "REMOTE")) =>
               \A o \in exploit_remote_vulnerability(n, t, P, v) :
                   o.result.raised = NoneStr =>
                       FromMaximalBranch(o.result, Resolved(t, v),
                           tentative(Lists(Cur), RemoteArguments(t, P, v),
                                     Resolved(t, v), 1))

\* the three-branch Login has returned its second branch, which ties with
\* the third for the maximum and beats the first
C14_Witness ==
    /\ result.op = "exploit_remote_vulnerability"
    /\ result.raised = NoneStr
    /\ result.precondition = "pLogin2"
    /\ result.reward_string = "profiles"
    /\ result.reward = -1 + FAILED_REMOTE_EXPLOIT
    /\ -1 + NO_VPN < result.reward

(***************************************************************************)
(* Vulnerability resolution                                                *)
(***************************************************************************)
\* res is what an exploit of the entry V returns: one of V's branches with
\* its precondition and reward string, at V's cost
ResolvedWith(res, V) ==
    /\ res.raised = NoneStr
    /\ \E i \in 1..Len(V.precondition) :
           /\ res.precondition = V.precondition[i].id
           /\ res.reward_string = V.reward_string[i]
           /\ res.outcome \in {V.outcome[i], ExploitFailed(None)}
           /\ res.succeeded =>
                  res.reward \in {-V.cost + REPEAT,
                                  -V.cost + NEW_SUCCESSFULL_ATTACK_REWARD
                                      + V.outcome[i].reward}

\* C15: an id defined both on the node and in the library is resolved with
\* the node's own entry (its type, cost, preconditions and outcomes), not
\* with the library's.
C15_NodeEntryWins ==
    \A n \in Nodes, v \in LibraryIds :
        (v \in NodeVulnIds(n) /\ agent_installed[n] /\ status[n] = "Running") =>
            \A o \in exploit_local_vulnerability(n, v) :
                ResolvedWith(o.result, NodeVuln(n, v))

(***************************************************************************)
(* Ownership and discovery                                                 *)
(***************************************************************************)
\* C16: ownership invariant I6.  In every reachable state every currently
\* owned node (last_owned_at set, and last_reimaging unset or not later than
\* last_owned_at) has the agent installed and a privilege of at least
\* LocalUser.
C16_OwnershipInvariant ==
    \A n \in Nodes :
        is_node_owned_history(Cur, n).is_currently_owned =>
            agent_installed[n] /\ privilege_level[n] >= LocalUser

\* n1 was reimaged and is owned again
C16_Witness ==
    /\ last_reimaging["n1"] # None
    /\ is_node_owned_history(Cur, "n1").is_currently_owned
    /\ last_owned_at["n1"] >= last_reimaging["n1"]
    /\ agent_installed["n1"]

\* the properties the step has newly discovered, over all nodes
NewlyDiscoveredProperties ==
    SumOver([n \in Nodes |->
                Cardinality(discovered_properties'[n] \ discovered_properties[n])], Nodes)

\* the step is a first successful exploit of vulnerability v of result'.node_id
FirstSuccessOf(v) ==
    /\ result'.op \in {"exploit_local_vulnerability", "exploit_remote_vulnerability"}
    /\ result'.succeeded
    /\ result'.parts.bonus
    /\ last_attack' # last_attack
    /\ Present(result'.node_id, v)
    /\ result'.outcome \in SeqRange(Resolved(result'.node_id, v).outcome)
    /\ result'.precondition
           \in {Resolved(result'.node_id, v).precondition[i].id :
                   i \in 1..Len(Resolved(result'.node_id, v).precondition)}

\* C17: node discovery reward.  A first successful exploit with outcome
\* LeakedNodesId(nodes) returns -cost + NEW_SUCCESSFULL_ATTACK_REWARD
\* + NODE_DISCOVERED_REWARD for each leaked node that was not yet discovered
\* + PROPERTY_DISCOVERED_REWARD for each newly discovered property, and
\* afterwards every leaked node is discovered.
C17_NodeDiscoveryReward ==
    [][\A v \in VulnerabilityIDs :
          (FirstSuccessOf(v) /\ result'.outcome.kind = "LeakedNodesId") =>
              /\ result'.reward =
                     -Resolved(result'.node_id, v).cost + NEW_SUCCESSFULL_ATTACK_REWARD
                     + NODE_DISCOVERED_REWARD
                         * Cardinality({n \in SeqRange(result'.outcome.nodes) :
                                           ~is_discovered(Cur, n)})
                     + PROPERTY_DISCOVERED_REWARD * NewlyDiscoveredProperties
              /\ SeqRange(result'.outcome.nodes) \subseteq SeqRange(discovered_nodes')]_vars

\* C18: idempotent discovery.  Marking a node that is discovered already
\* changes nothing (its discovered_properties, last_attack and last_owned_at
\* stay as they are) and reports zero newly discovered properties, so a leak
\* naming it counts no newly discovered node: a node is counted only while it
\* is not yet discovered, at most once in an episode.
C18_IdempotentDiscovery ==
    \A n \in SeqRange(discovered_nodes), propagate \in BOOLEAN :
        /\ mark_node_as_discovered(Cur, n, propagate) = [S |-> Cur, n |-> 0]
        /\ \A reference_node \in Nodes :
               leaked_node(Counters(Cur), reference_node, n, propagate)
                   .newly_discovered_nodes = 0
        /\ \A reference_node \in Nodes, c \in CredentialIDs :
               leaked_credential(Counters(Cur), reference_node,
                                 CachedCredential(n, "ssh", c), propagate)
                   .newly_discovered_nodes = 0

\* DumpCreds has succeeded on nodes that ScanPage had discovered before: it
\* earned the two credentials and no newly discovered node
C18_Witness ==
    /\ result.op = "exploit_local_vulnerability"
    /\ result.succeeded
    /\ result.outcome.kind = "LeakedCredentials"
    /\ \E e \in history["n0"] : e.key[1] = "ScanPage"
    /\ result.reward = -1 + NEW_SUCCESSFULL_ATTACK_REWARD + 2 * CREDENTIAL_DISCOVERED_REWARD

\* C19: global property visibility.  Once a global property has been
\* discovered on any node, it is in discovered_properties of every
\* discovered node, in that state and in every later one, nodes discovered or
\* owned afterwards included.
C19_GlobalPropertyVisibility ==
    \A g \in global_properties :
        (\E n \in SeqRange(discovered_nodes) : g \in discovered_properties[n])
            => \A m \in SeqRange(discovered_nodes) : g \in discovered_properties[m]

(***************************************************************************)
(* Reimaging                                                               *)
(***************************************************************************)
\* C20: reimaging duration.  After reimage_node(N) the countdown of N shows
\* REIMAGING_DURATION - k after the k-th call of on_attacker_step_taken; N is
\* Imaging during those calls and is Running again, its countdown removed,
\* by the REIMAGING_DURATION-th call: a node that is still Imaging has seen
\* fewer than REIMAGING_DURATION calls.
C20_ReimagingDuration ==
    \A n \in Nodes :
        status[n] = "Imaging" =>
            /\ node_reimaging_progress[n] # None
            /\ REIMAGING_DURATION - node_reimaging_progress[n] < REIMAGING_DURATION

(***************************************************************************)
(* The defender's calls                                                    *)
(***************************************************************************)
\* C21: reimage_node requires reimagable.  A call of reimage_node on a node
\* that is not reimagable fails its check and changes neither the world nor
\* the defender's state: the node keeps status, agent_installed, privilege
\* and last_reimaging, and is not scheduled in node_reimaging_progress.
C21_ReimageRequiresReimagable ==
    [][(result'.op = "reimage_node" /\ ~reimagable(result'.node_id))
          => /\ result'.raised = "AssertionError"
             /\ UNCHANGED <<worldVars, ledgerVars, defenderVars>>]_vars

\* is_currently_owned of __is_node_owned_history after the step
OwnedAfterwards(n) ==
    /\ n \in SeqRange(discovered_nodes')
    /\ last_owned_at'[n] # None
    /\ (last_reimaging'[n] = None \/ last_owned_at'[n] >= last_reimaging'[n])

\* C22: reimaging resets ownership without deleting history.  After
\* reimage_node(N) on a currently owned node, N is no longer currently owned
\* and has no agent, while N is still discovered and its discovered
\* properties, last_attack and last_owned_at are as before.
C22_ReimagingKeepsHistory ==
    [][\A n \in Nodes :
          (/\ result'.op = "reimage_node" /\ result'.node_id = n
           /\ result'.raised = NoneStr
           /\ is_node_owned_history(Cur, n).is_currently_owned)
          => /\ ~OwnedAfterwards(n)
             /\ ~agent_installed'[n]
             /\ n \in SeqRange(discovered_nodes')
             /\ discovered_properties'[n] = discovered_properties[n]
             /\ last_attack'[n] = last_attack[n]
             /\ last_owned_at'[n] = last_owned_at[n]]_vars

\* n1, owned with a recorded attack, has just been reimaged
C22_Witness ==
    /\ result.op = "reimage_node" /\ result.node_id = "n1" /\ result.raised = NoneStr
    /\ last_owned_at["n1"] # None
    /\ last_reimaging["n1"] > last_owned_at["n1"]
    /\ last_attack["n1"] # {}
    /\ status["n1"] = "Imaging"

\* the rule list of one direction of a node's firewall
Direction(fw, incoming) == IF incoming THEN fw.incoming ELSE fw.outgoing
MatchingRules(rules, port_name) == {k \in 1..Len(rules) : rules[k].port = port_name}
\* everything of the firewalls but the given direction of node n
OtherRulesUnchanged(n, incoming) ==
    /\ \A o \in Nodes \ {n} : firewall'[o] = firewall[o]
    /\ Direction(firewall'[n], ~incoming) = Direction(firewall[n], ~incoming)
AppendsOneRule(old, new, p, m) ==
    MatchingRules(old, p) = {} => new = Append(old, FirewallRule(p, m))
PatchesEveryMatch(old, new, p, m) ==
    MatchingRules(old, p) # {} =>
        /\ Len(new) = Len(old)
        /\ \A k \in 1..Len(old) :
               new[k] = IF old[k].port = p THEN FirewallRule(p, m) ELSE old[k]
PatchesFirstMatch(old, new, p, m) ==
    MatchingRules(old, p) # {} =>
        /\ Len(new) = Len(old)
        /\ \A k \in 1..Len(old) :
               new[k] = IF k \in MatchingRules(old, p) /\ \A j \in MatchingRules(old, p) : k <= j
                        THEN FirewallRule(p, m) ELSE old[k]

\* C23 - override_firewall_rule(node, port, incoming, permission) gives the
\* permission to every rule of the chosen direction whose port matches,
\* later rules for the same port included, and leaves the rules for other
\* ports and the whole list of the other direction unchanged; if no rule
\* matches it appends exactly one rule (port, permission) at the end.
C23_OverridePatchesEveryMatch ==
    [][\A p \in PortNames, incoming \in BOOLEAN, m \in {"ALLOW", "BLOCK"} :
           OverrideFirewallRule("n1", p, incoming, m) =>
               LET old == Direction(firewall["n1"], incoming)
                   new == Direction(firewall'["n1"], incoming)
               IN  /\ PatchesEveryMatch(old, new, p, m)
                   /\ AppendsOneRule(old, new, p, m)
                   /\ OtherRulesUnchanged("n1", incoming)]_vars

\* C23 as stated: only the first rule whose port matches changes, later
\* rules for the same port stay as they were
C23_OverridePatchesFirstMatch ==
    [][\A p \in PortNames, incoming \in BOOLEAN, m \in {"ALLOW", "BLOCK"} :
           OverrideFirewallRule("n1", p, incoming, m) =>
               LET old == Direction(firewall["n1"], incoming)
                   new == Direction(firewall'["n1"], incoming)
               IN  /\ PatchesFirstMatch(old, new, p, m)
                   /\ AppendsOneRule(old, new, p, m)
                   /\ OtherRulesUnchanged("n1", incoming)]_vars

\* an override has rewritten two rules for the same port in one direction:
\* the two lists started equal and now differ in both rules
C23_Witness ==
    /\ result.op = "override_firewall_rule"
    /\ Len(firewall["n1"].incoming) = Len(firewall["n1"].outgoing)
    /\ \E j, k \in 1..Len(firewall["n1"].incoming) :
           /\ j < k
           /\ firewall["n1"].incoming[j].port = firewall["n1"].incoming[k].port
           /\ firewall["n1"].outgoing[j].port = firewall["n1"].incoming[j].port
           /\ firewall["n1"].outgoing[k].port = firewall["n1"].incoming[k].port
           /\ firewall["n1"].incoming[j].permission # firewall["n1"].outgoing[j].permission
           /\ firewall["n1"].incoming[k].permission # firewall["n1"].outgoing[k].permission

\* C24 - edge annotation is a maximum under KNOWS < REMOTE_EXPLOIT <
\* LATERAL_MOVE: no step lowers the annotation of an edge or removes it; a
\* remote exploit that succeeds leaves the edge from its source to its
\* target at REMOTE_EXPLOIT or above, and one that fails leaves every edge
\* as it was.
C24_EdgeAnnotationIsMax ==
    [][/\ \A e \in Nodes \X Nodes : edges'[e] >= edges[e]
       /\ \A v \in {"Probe", "Move"} :
              ExploitRemote("n0", "n1", NoAuth, v) =>
                  IF result'.succeeded
                  THEN edges'[<<"n0", "n1">>] >= REMOTE_EXPLOIT
                  ELSE edges' = edges]_vars

\* an edge already annotated LATERAL_MOVE by a connection keeps that
\* annotation through a successful remote exploit along it
C24_Witness ==
    /\ result.op = "exploit_remote_vulnerability"
    /\ result.succeeded
    /\ result.node_id = "n1"
    /\ edges[<<"n0", "n1">>] = LATERAL_MOVE

(***************************************************************************)
(* The branch loop                                                         *)
(***************************************************************************)
\* the ledger and the nodes' property lists of S are those of the current
\* state
SameLedgerAndProperties(S) ==
    /\ S.discovered_nodes = discovered_nodes
    /\ S.discovered_properties = discovered_properties
    /\ S.gathered_credentials = gathered_credentials
    /\ S.gathered_profiles = gathered_profiles
    /\ S.node_properties = node_properties

\* C25 - dry-run purity: after the branch loop of an exploit has evaluated
\* every branch and before a branch is selected, discovered nodes,
\* discovered properties, credentials, profiles and every node's properties
\* list are as before the call.
C25_DryRunIsPure ==
    /\ \A n \in Nodes, v \in VulnerabilityIDs :
           (agent_installed[n] /\ Evaluated(n, v, "LOCAL")) =>
               SameLedgerAndProperties(
                   branch_loop(Lists(Cur), LocalArguments(n, v), Resolved(n, v), 1).S)
    /\ \A t \in Nodes, P \in Profiles, v \in VulnerabilityIDs :
           (is_discovered(Cur, t) /\ Evaluated(t, v, "REMOTE")) =>
               SameLedgerAndProperties(
                   branch_loop(Lists(Cur), RemoteArguments(t, P, v), Resolved(t, v), 1).S)

\* the error class of a branch the profile check rejects
ProfileErrorClass(profile, precondition) ==
    IF check_profile(profile, precondition).wo_roles_is_true THEN "ROLES_WRONG"
    ELSE IF profile.username = "NoAuth" THEN "NO_AUTH"
    ELSE "WRONG_AUTH"
\* branch i of V, evaluated on its own with the arguments C, is rejected by
\* the profile check
ProfileRejects(C, V, i) ==
    /\ ~(<<"ip", "local">> \in get_symbols(V.precondition[i].expression)
         /\ ~(~C.profile.none /\ C.profile.ip = "local"))
    /\ ~check_profile(C.profile, V.precondition[i]).is_true
\* L holds exactly one tentative result: error class e with reward r and
\* outcome ExploitFailed
TentativeFailure(L, e, r) ==
    /\ L.raised = NoneStr
    /\ L.error_type_list = <<e>>
    /\ L.max_reward_list = <<r>>
    /\ L.max_outcome_list = <<ExploitFailed(None)>>

\* C26 - a branch whose precondition is false under the profile mapping is
\* classified ROLES_WRONG, NO_AUTH or WRONG_AUTH and its tentative reward is
\* -cost + failed_penalty of the entry point: -cost - 30 for a remote
\* exploit, -cost - 20 for a local exploit.
C26_ProfileFailureUsesFailedPenalty ==
    /\ \A n \in Nodes, v \in VulnerabilityIDs :
           (agent_installed[n] /\ Evaluated(n, v, "LOCAL")) =>
               \A i \in 1..Len(Resolved(n, v).precondition) :
                   ProfileRejects(LocalArguments(n, v), Resolved(n, v), i) =>
                       TentativeFailure(
                           eval_branch(Lists(Cur), LocalArguments(n, v), Resolved(n, v), i),
                           ProfileErrorClass(NoProfile, Resolved(n, v).precondition[i]),
                           -Resolved(n, v).cost + LOCAL_EXPLOIT_FAILED)
    /\ \A t \in Nodes, P \in Profiles, v \in VulnerabilityIDs :
           (is_discovered(Cur, t) /\ Evaluated(t, v, "REMOTE")) =>
               \A i \in 1..Len(Resolved(t, v).precondition) :
                   ProfileRejects(RemoteArguments(t, P, v), Resolved(t, v), i) =>
                       TentativeFailure(
                           eval_branch(Lists(Cur), RemoteArguments(t, P, v), Resolved(t, v), i),
                           ProfileErrorClass(P, Resolved(t, v).precondition[i]),
                           -Resolved(t, v).cost + FAILED_REMOTE_EXPLOIT)

\* branch i of V, evaluated on its own with the arguments C, passes the
\* local-network and profile checks
PassesProfile(C, V, i) ==
    /\ ~(<<"ip", "local">> \in get_symbols(V.precondition[i].expression)
         /\ ~(~C.profile.none /\ C.profile.ip = "local"))
    /\ check_profile(C.profile, V.precondition[i]).is_true
\* the precondition with each property symbol true iff the property is in
\* props and each profile symbol true iff the profile carries it
HoldsWith(props, profile, precondition) ==
    subs_simplify(precondition.expression,
                  {x \in get_symbols(precondition.expression) :
                      IF x[1] = "prop" THEN x[2] \in props
                      ELSE x \in profile_symbols(profile)})
\* the branch went on to its outcome: no tentative PROPERTY_WRONG
Fires(L) == L.raised # NoneStr \/ "PROPERTY_WRONG" \notin SeqRange(L.error_type_list)

\* C27 - property gating uses discovered properties: a branch that passes
\* the profile check goes on to its outcome only if its precondition holds
\* with each property symbol true iff the property is in
\* discovered_properties of the node under test; otherwise, even when the
\* node really has the property, the branch yields PROPERTY_WRONG with
\* reward -cost + failed_penalty and outcome ExploitFailed.
C27_PropertyGating ==
    /\ \A n \in Nodes, v \in VulnerabilityIDs :
           (agent_installed[n] /\ Evaluated(n, v, "LOCAL")) =>
               \A i \in 1..Len(Resolved(n, v).precondition) :
                   PassesProfile(LocalArguments(n, v), Resolved(n, v), i) =>
                       \A L \in {eval_branch(Lists(Cur), LocalArguments(n, v),
                                             Resolved(n, v), i)} :
                           IF HoldsWith(discovered_properties[n], NoProfile,
                                        Resolved(n, v).precondition[i])
                           THEN Fires(L)
                           ELSE TentativeFailure(L, "PROPERTY_WRONG",
                                    -Resolved(n, v).cost + LOCAL_EXPLOIT_FAILED)
    /\ \A t \in Nodes, P \in Profiles, v \in VulnerabilityIDs :
           (is_discovered(Cur, t) /\ Evaluated(t, v, "REMOTE")) =>
               \A i \in 1..Len(Resolved(t, v).precondition) :
                   PassesProfile(RemoteArguments(t, P, v), Resolved(t, v), i) =>
                       \A L \in {eval_branch(Lists(Cur), RemoteArguments(t, P, v),
                                             Resolved(t, v), i)} :
                           IF HoldsWith(discovered_properties[t], P,
                                        Resolved(t, v).precondition[i])
                           THEN Fires(L)
                           ELSE TentativeFailure(L, "PROPERTY_WRONG",
                                    -Resolved(t, v).cost + FAILED_REMOTE_EXPLOIT)

\* a remote Move on n1 was refused as PROPERTY_WRONG at -cost - 30 although
\* n1 has the property q it asks for: q is not yet discovered
C27_Witness ==
    /\ result.op = "exploit_remote_vulnerability"
    /\ result.node_id = "n1"
    /\ result.error_type = "PROPERTY_WRONG"
    /\ result.precondition = "pMove"
    /\ result.reward = -NodeVuln("n1", "Move").cost + FAILED_REMOTE_EXPLOIT
    /\ result.outcome = ExploitFailed(None)
    /\ "q" \in node_properties["n1"]
    /\ "q" \notin discovered_properties["n1"]

(***************************************************************************)
(* Repeated attempts                                                       *)
(***************************************************************************)
\* the node's last_attack holds the failure key of the returned branch with
\* the time t
FailureRecorded(la, res, t) ==
    \E e \in la[res.node_id] :
        /\ e.key[2] = (res.op = "exploit_local_vulnerability")
        /\ e.key[3] = res.precondition
        /\ e.key[4] = FALSE
        /\ e.time = t

\* C28 - failure bookkeeping: every failed exploit records the failure key
\* (vulnerability id, local/remote, chosen precondition, success = false)
\* with the current time in the node's last_attack, and a second identical
\* failed attempt on a node not reimaged in between is classified REPEATED.
C28_FailureIsRecorded ==
    [][/\ (IsFailure(result') /\ result'.error_type # "REPEATED") =>
              FailureRecorded(last_attack', result', now')
       /\ (/\ IsFailure(result) /\ IsFailure(result')
           /\ result.op = "exploit_local_vulnerability"
           /\ result'.op = result.op
           /\ result'.node_id = result.node_id
           /\ result'.precondition = result.precondition
           /\ now' = now) =>
              result'.error_type = "REPEATED"]_vars

(***************************************************************************)
(* Ownership after an escalation                                           *)
(***************************************************************************)
\* in S node n carries the agent at the given privilege or above, all its
\* own properties are discovered and its ownership is stamped
OwnedAt(S, n, level) ==
    /\ S.agent_installed[n]
    /\ S.privilege_level[n] >= level
    /\ (S.node_properties[n] \ privilege_tags) \subseteq S.discovered_properties[n]
    /\ S.last_owned_at[n] # None

\* C29 - postcondition of __mark_node_as_owned: after a state-changing call
\* on any node, a node that is already currently owned included, the agent
\* is installed, the privilege is at least the given level, every property
\* of the node is discovered and last_owned_at is stamped; and after a
\* committed PrivilegeEscalation the tag is among the node's properties and
\* the node's privilege is at least the outcome's level.
C29_OwnedAtGivenPrivilege ==
    /\ \A n \in Nodes, level \in LocalUser..System :
           OwnedAt(mark_node_as_owned(Cur, n, level, TRUE).S, n, level)
    /\ (result.op \in ExploitOps /\ result.succeeded
        /\ result.outcome.kind = "PrivilegeEscalation") =>
           /\ tag(result.outcome.level) \in node_properties[result.node_id]
           /\ OwnedAt(Cur, result.node_id, result.outcome.level)

\* the key of the branch that res returns succeeded on its node before the
\* node's last reimaging and not since
SucceededBeforeReimaging(res) ==
    /\ res.op \in ExploitOps
    /\ res.raised = NoneStr
    /\ last_reimaging[res.node_id] # None
    /\ \E e \in last_attack[res.node_id] :
           /\ e.key[2] = (res.op = "exploit_local_vulnerability")
           /\ e.key[3] = res.precondition
           /\ e.key[4]
           /\ e.time < last_reimaging[res.node_id]

\* C30 - bonus after reimaging: when a key succeeded on N and N was then
\* reimaged and runs again, the next exploit returning that key's branch is
\* not classified REPEATED, and if it succeeds its reward includes
\* NEW_SUCCESSFULL_ATTACK_REWARD again.
C30_BonusAfterReimaging ==
    [][(SucceededBeforeReimaging(result') /\ result' # result) =>
           /\ result'.error_type # "REPEATED"
           /\ result'.succeeded => result'.parts.bonus]_vars

(***************************************************************************)
(* The value of a node                                                     *)
(***************************************************************************)
\* a step in which an exploit returns a successful LateralMove on node n
LateralMoveOn(n) ==
    /\ result'.op \in ExploitOps
    /\ result'.succeeded
    /\ result'.outcome.kind = "LateralMove"
    /\ result'.node_id = n
\* the reward is base, or base with NEW_SUCCESSFULL_ATTACK_REWARD
RewardIs(res, base) == res.reward \in {base, base + NEW_SUCCESSFULL_ATTACK_REWARD}

\* the ledger's view: n was owned and not reimaged since
CurrentlyOwned(n) ==
    /\ last_owned_at[n] # None
    /\ last_reimaging[n] = None \/ last_owned_at[n] >= last_reimaging[n]

\* C31 - LateralMove value: a firing branch with outcome LateralMove adds
\* value(N) to the reward when the node under test N was never owned, and
\* adds nothing when N is owned or was owned before, a node owned only
\* before its last reimaging included.
C31_LateralMoveValueOnce ==
    [][\A n \in Nodes :
           LateralMoveOn(n) =>
               RewardIs(result', -NodeVuln(n, "Move").cost
                                 + (IF last_owned_at[n] = None THEN value(n) ELSE 0))]_vars

\* C31 as stated: value(N) is added whenever N is not currently owned, a
\* node owned only before its last reimaging included
C31_LateralMoveValueWhenNotOwned ==
    [][\A n \in Nodes :
           LateralMoveOn(n) =>
               RewardIs(result', -NodeVuln(n, "Move").cost
                                 + (IF ~CurrentlyOwned(n) THEN value(n) ELSE 0))]_vars

\* n1 was owned, then reimaged, and a lateral move on it succeeded again at
\* the bare cost
C31_Witness ==
    /\ result.op = "exploit_remote_vulnerability"
    /\ result.succeeded
    /\ result.outcome.kind = "LateralMove"
    /\ result.node_id = "n1"
    /\ result.reward = -NodeVuln("n1", "Move").cost
    /\ last_reimaging["n1"] # None
    /\ last_owned_at["n1"] >= last_reimaging["n1"]

(***************************************************************************)
(* Deception triggers                                                      *)
(***************************************************************************)
\* the call returned a branch that passed its checks and whose designed
\* outcome is ExploitFailed
DeceptionTriggered(res) ==
    /\ res.op \in ExploitOps
    /\ res.raised = NoneStr
    /\ res.error_type = "OTHER"
    /\ res.outcome.kind = "ExploitFailed"

\* C32 - deception trigger: a branch that passes the profile and property
\* checks and whose designed outcome is ExploitFailed yields -cost -
\* outcome.cost, or -cost - 30 when the outcome has no cost, with that
\* ExploitFailed outcome, and the success key of the branch is recorded in
\* the node's last_attack.
C32_DeceptionTriggerIsRecorded ==
    DeceptionTriggered(result) =>
        /\ \E v \in NodeVulnIds(result.node_id) :
               \E i \in 1..Len(NodeVuln(result.node_id, v).precondition) :
                   /\ NodeVuln(result.node_id, v).precondition[i].id = result.precondition
                   /\ NodeVuln(result.node_id, v).outcome[i] = result.outcome
                   /\ result.reward = -NodeVuln(result.node_id, v).cost
                                      + (IF result.outcome.cost # None
                                         THEN -result.outcome.cost
                                         ELSE FAILED_REMOTE_EXPLOIT)
        /\ \E e \in last_attack[result.node_id] :
               /\ e.key[2] = (result.op = "exploit_local_vulnerability")
               /\ e.key[3] = result.precondition
               /\ e.key[4]

(***************************************************************************)
(* The local network                                                       *)
(***************************************************************************)
\* C33 - the unlocking of ip.local is one-time: no step resets the ip_local
\* flag, and a step whose returned reward includes IP_CHANGE_TO_IP_LOCAL
\* starts with the flag unset and sets it, so that the reward is included at
\* most once and never while the flag is set.
C33_IpLocalUnlockedOnce ==
    [][/\ ip_local => ip_local'
       /\ result'.parts.ip_change =>
              /\ ~ip_local
              /\ ip_local'
              /\ result'.succeeded
              /\ result'.outcome.kind = "LeakedProfiles"]_vars

\* with the flag set by a Leak on n1, a first Leak on n2 gave the same
\* profile with ip.local and earned no IP_CHANGE_TO_IP_LOCAL
C33_Witness ==
    /\ ip_local
    /\ result.op = "exploit_remote_vulnerability"
    /\ result.node_id = "n2"
    /\ result.succeeded
    /\ result.outcome.kind = "LeakedProfiles"
    /\ result.parts.bonus
    /\ ~result.parts.ip_change
    /\ \E e \in history["n1"] : e.key[3] = "pLeak"

\* the branch that res returns asks for ip.local
NeedsIpLocal(res) ==
    \E v \in NodeVulnIds(res.node_id) :
        \E i \in 1..Len(NodeVuln(res.node_id, v).precondition) :
            /\ NodeVuln(res.node_id, v).precondition[i].id = res.precondition
            /\ <<"ip", "local">> \in get_symbols(NodeVuln(res.node_id, v).precondition[i].expression)

\* C34 - SSRF gating: a branch whose precondition contains ip.local yields
\* IP_LOCAL_NEEDED with -cost + NO_VPN and ExploitFailed for a profile whose
\* ip is not local; and no branch that asks for ip.local fires, and no SSRF
\* bonus is granted, in a state where the ledger's ip_local flag has not
\* been unlocked.
C34_SsrfNeedsUnlock ==
    [][/\ \A t \in Nodes, P \in Profiles, v \in VulnerabilityIDs :
              (is_discovered(Cur, t) /\ Evaluated(t, v, "REMOTE")) =>
                  \A i \in 1..Len(Resolved(t, v).precondition) :
                      (/\ <<"ip", "local">> \in
                              get_symbols(Resolved(t, v).precondition[i].expression)
                       /\ P.ip # "local") =>
                          TentativeFailure(
                              eval_branch(Lists(Cur), RemoteArguments(t, P, v),
                                          Resolved(t, v), i),
                              "IP_LOCAL_NEEDED", -Resolved(t, v).cost + NO_VPN)
       /\ (/\ result'.op \in ExploitOps
           /\ result'.succeeded
           /\ result'.parts.ssrf \/ NeedsIpLocal(result')) =>
              ip_local]_vars

(***************************************************************************)
(* The two views of ownership                                              *)
(***************************************************************************)
\* C35 - the ownership views agree: in every reachable state and for every
\* node, agent_installed is true if and only if the node is currently owned
\* according to the ledger (discovered, last_owned_at set, and
\* last_reimaging unset or not later than last_owned_at).
C35_OwnershipViewsAgree ==
    \A n \in Nodes :
        agent_installed[n] <=> (is_discovered(Cur, n) /\ CurrentlyOwned(n))

\* n1 was owned and then reimaged: the agent is gone and the ledger's
\* ownership stamp is older than the reimaging
C35_Witness ==
    /\ ~agent_installed["n1"]
    /\ last_owned_at["n1"] # None
    /\ last_reimaging["n1"] # None
    /\ last_owned_at["n1"] < last_reimaging["n1"]
    /\ agent_installed["n0"]

\* the returned reward includes the value of the node the call was about:
\* a connection paying value(N), or a lateral move by exploit paying
\* -cost + value(N) with or without NEW_SUCCESSFULL_ATTACK_REWARD
ValueIncluded(res) ==
    /\ res.raised = NoneStr
    /\ res.node_id \in Nodes
    /\ res.outcome.kind = "LateralMove"
    /\ value(res.node_id) > 0
    /\ \/ res.op = "connect_to_remote_machine" /\ res.reward = value(res.node_id)
       \/ /\ res.op \in ExploitOps
          /\ res.succeeded
          /\ RewardIs(res, -NodeVuln(res.node_id, "Move").cost + value(res.node_id))

BranchOrders(n) == {p \in [1..n -> 1..n] : \A j, k \in 1..n : p[j] = p[k] => j = k}
Permute(V, p) ==
    [V EXCEPT !.precondition = [k \in 1..Len(V.precondition) |-> V.precondition[p[k]]],
              !.outcome = [k \in 1..Len(V.outcome) |-> V.outcome[p[k]]],
              !.reward_string = [k \in 1..Len(V.reward_string) |-> V.reward_string[p[k]]]]
\* what the kernel can return for the entry V: a reward, or an exception
ReturnsOf(C, V) ==
    UNION {{IF o.result.raised # NoneStr THEN <<"raised", o.result.raised>>
            ELSE <<"reward", o.result.reward>> :
            o \in IF L.raised # NoneStr
                  THEN {[S |-> L.S, result |-> Raised(C.op, C.node_id, L.raised)]}
                  ELSE select(L, C, V)} :
           L \in {branch_loop(Lists(Cur), C, V, 1)}}
\* the tentative results of the branches, each evaluated in the state before
\* the call
RECURSIVE tentative_before(_, _, _)
tentative_before(C, V, i) ==
    IF i > Len(V.precondition) THEN <<>>
    ELSE tentative(Lists(Cur), C, [V EXCEPT !.precondition = <<V.precondition[i]>>,
                                            !.outcome = <<V.outcome[i]>>,
                                            !.reward_string = <<V.reward_string[i]>>], 1)
         \o tentative_before(C, V, i + 1)
OrderIndependent(C, V) ==
    /\ tentative(Lists(Cur), C, V, 1) = tentative_before(C, V, 1)
    /\ \A p \in BranchOrders(Len(V.precondition)) :
           ReturnsOf(C, Permute(V, p)) = ReturnsOf(C, V)

\* C37 - branch-order independence: the tentative reward of each branch of
\* a vulnerability depends only on the state before the call, not on the
\* branches evaluated before it, and permuting the parallel precondition,
\* outcome and reward_string lists consistently yields the same returned
\* reward for the same state, profile and action.
C37_BranchOrderIndependence ==
    /\ \A n \in Nodes, v \in VulnerabilityIDs :
           (agent_installed[n] /\ Evaluated(n, v, "LOCAL")) =>
               OrderIndependent(LocalArguments(n, v), Resolved(n, v))
    /\ \A t \in Nodes, P \in Profiles, v \in VulnerabilityIDs :
           (is_discovered(Cur, t) /\ Evaluated(t, v, "REMOTE")) =>
               OrderIndependent(RemoteArguments(t, P, v), Resolved(t, v))

(***************************************************************************)
(* A reimaged node as an attack base                                       *)
(***************************************************************************)
\* both modes: the attacker takes n1, the defender reimages it, and the
\* attacker keeps using n1 as the source of its calls
NextBase ==
    \/ ExploitLocal("n0", "DumpCreds")
    \/ ExploitRemote("n0", "n1", NoAuth, "Move")
    \/ Connect("n0", "n1", "ssh", "c1")
    \/ ExploitLocal("n1", "Shared")
    \/ ExploitRemote("n1", "n2", NoAuth, "Probe")
    \/ Connect("n1", "n2", "ssh", "c1")
    \/ ReimageNode("n1")
    \/ OnAttackerStepTaken

SpecBase == InitModes /\ [][NextBase]_vars

\* n has been reimaged and not been owned since
ReimagedNotOwnedSince(n) ==
    /\ last_reimaging[n] # None
    /\ last_owned_at[n] = None \/ last_owned_at[n] < last_reimaging[n]

\* the call is refused as invalid and writes nothing
RejectedAsInvalid(o) ==
    /\ o.S = Cur
    /\ IF throws_on_invalid_actions THEN o.result.raised = "ValueError"
       ELSE Invalid(o.result)

\* the call stops at the status check of the kernel
MachineNotRunning(o) ==
    /\ o.S = Cur
    /\ o.result.raised = NoneStr
    /\ o.result.reward = MACHINE_NOT_RUNNING
    /\ o.result.outcome = NoOutcome
    /\ o.result.precondition = NoneStr \/ o.result.precondition = ""

\* C38 - a reimaged node is not an attack base: from reimage_node(N) until N
\* is owned again, every local exploit on N, every remote exploit with
\* source N and every connect with source N is rejected as an invalid
\* action (INVALID_ACTION in lenient mode, an exception in strict mode) and
\* changes no state; while the status of N is not Running, every exploit
\* that reaches the kernel with target N returns MACHINE_NOT_RUNNING (0)
\* with no outcome and changes no state.
C38_ReimagedNodeIsNoBase ==
    \A n \in Nodes :
        /\ ReimagedNotOwnedSince(n) =>
               /\ \A v \in AllVulnerabilityIDs :
                      \A o \in exploit_local_vulnerability(n, v) : RejectedAsInvalid(o)
               /\ \A t \in Nodes, P \in Profiles, v \in AllVulnerabilityIDs :
                      \A o \in exploit_remote_vulnerability(n, t, P, v) :
                          RejectedAsInvalid(o)
               /\ \A t \in Nodes, port \in PortNames, c \in CredentialIDs :
                      RejectedAsInvalid(connect_to_remote_machine(n, t, port, c))
        /\ status[n] # "Running" =>
               /\ \A v \in AllVulnerabilityIDs :
                      agent_installed[n] =>
                          \A o \in exploit_local_vulnerability(n, v) : MachineNotRunning(o)
               /\ \A s \in Nodes, P \in Profiles, v \in AllVulnerabilityIDs :
                      (agent_installed[s] /\ is_discovered(Cur, n)) =>
                          \A o \in exploit_remote_vulnerability(s, n, P, v) :
                              MachineNotRunning(o)

\* strict mode: a local exploit on the reimaged n1, once owned, has just
\* been refused
C38_Witness ==
    /\ throws_on_invalid_actions
    /\ ReimagedNotOwnedSince("n1")
    /\ last_owned_at["n1"] # None
    /\ result.op = "exploit_local_vulnerability"
    /\ result.node_id = "n1"
    /\ result.raised = "ValueError"

(***************************************************************************)
(* The evaluation of a precondition                                        *)
(***************************************************************************)
\* the branch needs the local network and the profile is not on it
BlockedByIpLocal(C, V, i) ==
    /\ <<"ip", "local">> \in get_symbols(V.precondition[i].expression)
    /\ ~(~C.profile.none /\ C.profile.ip = "local")
\* the branch evaluated into L went on to its outcome
BranchFired(L) ==
    /\ L.raised = NoneStr
    /\ SeqRange(L.error_type_list)
           \cap {"IP_LOCAL_NEEDED", "ROLES_WRONG", "NO_AUTH", "WRONG_AUTH",
                 "PROPERTY_WRONG"} = {}
\* branch i fires exactly when its precondition holds under the actual
\* assignment on node n
Faithful(n, C, V, i) ==
    BlockedByIpLocal(C, V, i) \/
        (BranchFired(eval_branch(Lists(Cur), C, V, i))
            <=> HoldsWith(discovered_properties[n], C.profile, V.precondition[i]))

\* C39 - precondition evaluation is faithful: a branch not held back by
\* ip.local fires if and only if its precondition is true under the actual
\* assignment (a profile symbol true iff the profile carries it, a property
\* symbol true iff it is discovered on the node under test); a branch whose
\* precondition is true under that assignment is never classified
\* ROLES_WRONG, WRONG_AUTH or NO_AUTH, also when the precondition negates an
\* undiscovered property.
C39_PreconditionEvaluationIsFaithful ==
    /\ \A n \in Nodes, v \in VulnerabilityIDs :
           (agent_installed[n] /\ Evaluated(n, v, "LOCAL")) =>
               \A i \in 1..Len(Resolved(n, v).precondition) :
                   Faithful(n, LocalArguments(n, v), Resolved(n, v), i)
    /\ \A t \in Nodes, P \in Profiles, v \in VulnerabilityIDs :
           (is_discovered(Cur, t) /\ Evaluated(t, v, "REMOTE")) =>
               \A i \in 1..Len(Resolved(t, v).precondition) :
                   Faithful(t, RemoteArguments(t, P, v), Resolved(t, v), i)

(***************************************************************************)
(* epsilon_greedy_search: the training loop                                *)
(***************************************************************************)
MaxEpisodes == 3
MaxIterations == 3

\* the state before the while loop, for every episode_count and
\* iteration_count within the bounds
InitTrain ==
    /\ InitBase
    /\ probe \in {[episode_count |-> e, iteration_count |-> i, steps_done |-> 0,
                   i_episode |-> 0, t |-> 0, episode_ended_at |-> None,
                   pc |-> "while"] :
                     e \in 1..MaxEpisodes, i \in 1..MaxIterations}

\* `while steps_done <= episode_count * iteration_count: i_episode += 1`
NewEpisode ==
    /\ probe.pc = "while"
    /\ probe.steps_done <= probe.episode_count * probe.iteration_count
    /\ probe' = [probe EXCEPT !.i_episode = @ + 1, !.t = 0, !.episode_ended_at = None,
                              !.pc = "for"]
    /\ UNCHANGED <<worldVars, ledgerVars, throws_on_invalid_actions, defenderVars, now,
                   result, history>>

\* one pass of `for t in range(1, 1 + iteration_count)`: the step is
\* counted, the environment reports done or not, and the episode is over
\* when it does or when the range is exhausted
Iteration(done) ==
    /\ probe.pc = "for"
    /\ probe.t < probe.iteration_count
    /\ probe' = [probe EXCEPT !.steps_done = @ + 1,
                              !.t = @ + 1,
                              !.episode_ended_at = IF done THEN probe.t + 1 ELSE None,
                              !.pc = IF done \/ probe.t + 1 = probe.iteration_count
                                     THEN "while" ELSE "for"]
    /\ UNCHANGED <<worldVars, ledgerVars, throws_on_invalid_actions, defenderVars, now,
                   result, history>>

\* the while condition fails and the trained learner is returned
ReturnTrainedLearner ==
    /\ probe.pc = "while"
    /\ ~(probe.steps_done <= probe.episode_count * probe.iteration_count)
    /\ probe' = [probe EXCEPT !.pc = "returned"]
    /\ UNCHANGED <<worldVars, ledgerVars, throws_on_invalid_actions, defenderVars, now,
                   result, history>>

NextTrain ==
    \/ NewEpisode
    \/ \E done \in BOOLEAN : Iteration(done)
    \/ ReturnTrainedLearner

SpecTrain == InitTrain /\ [][NextTrain]_vars

\* C40 - training loop length: epsilon_greedy_search with iteration_count
\* >= 1 runs exactly episode_count training episodes before it returns,
\* each of at most iteration_count steps, whatever the number of episodes
\* that end early.
C40_TrainingLoopLength ==
    /\ probe.t <= probe.iteration_count
    /\ probe.i_episode <= probe.episode_count
    /\ probe.pc = "returned" => probe.i_episode = probe.episode_count

====
